---- MODULE Spec2Model ----
(***************************************************************************)
(* A model of anchr: the WSM protocol core (message-ID pool, auth gate,    *)
(* control-stream dispatchers on both endpoints, chunked upload and the    *)
(* finalizer).  Every subsystem has its own specification over the shared  *)
(* variables of this module.                                               *)
(***************************************************************************)
EXTENDS Integers, Sequences, FiniteSets, TLC

(***************************************************************************)
(* Part 1.  src/wsm/msg_id.rs : the process-wide message-ID pool.          *)
(***************************************************************************)

VARIABLES
    pool,        \* MSG_ID_POOL: the HashSet<u8> behind the mutex
    poolLock,    \* the task that holds the MSG_ID_POOL mutex, or NoTask
    tpc,         \* per task: where it is inside a pool operation
    targ,        \* per task: the id handed to remove_msg_id
    tret,        \* per task: what its last pool operation returned
    live         \* per id: allocations of it that were returned and not released since

poolVars == <<pool, poolLock, tpc, targ, tret, live>>

\* u8::MAX
U8_MAX == 255

\* the values of a u8
U8 == 0 .. U8_MAX

\* the tasks that call into the pool concurrently
NumTasks == 2

Tasks == 1 .. NumTasks

NoTask == 0

\* the ids the tasks of this specification release, and the ids that may be
\* free when it starts
MaxSmallId == 2

SmallIds == 0 .. MaxSmallId

RetNone == [kind |-> "none", val |-> 0]

RetSome(id) == [kind |-> "some", val |-> id]

RetBool(b) == [kind |-> "bool", val |-> IF b THEN 1 ELSE 0]

RetNothing == [kind |-> "unit", val |-> 0]

\* pool.len() >= (u8::MAX as usize) + 1
PoolFullOffByOne(p) == Cardinality(p) >= U8_MAX

PoolFull(p) == Cardinality(p) >= U8_MAX + 1

\* HashSet::insert returns true iff the value was not present
InsertAcceptsAnything(p, id) == TRUE

InsertAccepts(p, id) == id \notin p

\* lock().await of a free mutex
LockPool(t, next) ==
    /\ poolLock = NoTask
    /\ poolLock' = t
    /\ tpc' = [tpc EXCEPT ![t] = next]

\* a task calls create_new_msg_id and waits for the mutex
CallCreate(t) ==
    /\ tpc[t] = "idle"
    /\ tpc' = [tpc EXCEPT ![t] = "create_lock"]
    /\ tret' = [tret EXCEPT ![t] = RetNothing]
    /\ UNCHANGED <<pool, poolLock, targ, live>>

CreateLock(t) ==
    /\ tpc[t] = "create_lock"
    /\ LockPool(t, "create_check")
    /\ UNCHANGED <<pool, targ, tret, live>>

\* the saturation test; the guard is dropped on return
CreateCheck(t) ==
    /\ tpc[t] = "create_check"
    /\ IF PoolFull(pool)
       THEN /\ tret' = [tret EXCEPT ![t] = RetNone]
            /\ tpc' = [tpc EXCEPT ![t] = "idle"]
            /\ poolLock' = NoTask
       ELSE /\ tpc' = [tpc EXCEPT ![t] = "create_loop"]
            /\ UNCHANGED <<tret, poolLock>>
    /\ UNCHANGED <<pool, targ, live>>

\* one turn of the loop: rand::random::<u8>() gives new_id
CreateDraw(t, new_id) ==
    /\ tpc[t] = "create_loop"
    /\ IF InsertAccepts(pool, new_id)
       THEN /\ pool' = pool \cup {new_id}
            /\ tret' = [tret EXCEPT ![t] = RetSome(new_id)]
            /\ live' = [live EXCEPT ![new_id] = @ + 1]
            /\ tpc' = [tpc EXCEPT ![t] = "idle"]
            /\ poolLock' = NoTask
       ELSE UNCHANGED <<pool, tret, live, tpc, poolLock>>
    /\ UNCHANGED targ

\* a task calls remove_msg_id(id)
CallRemove(t, id) ==
    /\ tpc[t] = "idle"
    /\ tpc' = [tpc EXCEPT ![t] = "remove_lock"]
    /\ targ' = [targ EXCEPT ![t] = id]
    /\ tret' = [tret EXCEPT ![t] = RetNothing]
    /\ UNCHANGED <<pool, poolLock, live>>

RemoveLock(t) ==
    /\ tpc[t] = "remove_lock"
    /\ LockPool(t, "remove_body")
    /\ UNCHANGED <<pool, targ, tret, live>>

RemoveBody(t) ==
    /\ tpc[t] = "remove_body"
    /\ pool' = pool \ {targ[t]}
    /\ tret' = [tret EXCEPT ![t] = RetBool(targ[t] \in pool)]
    /\ live' = [live EXCEPT ![targ[t]] = 0]
    /\ tpc' = [tpc EXCEPT ![t] = "idle"]
    /\ poolLock' = NoTask
    /\ UNCHANGED targ

PoolInit ==
    /\ \E free \in SUBSET SmallIds : pool = U8 \ free
    /\ poolLock = NoTask
    /\ tpc = [t \in Tasks |-> "idle"]
    /\ targ = [t \in Tasks |-> 0]
    /\ tret = [t \in Tasks |-> RetNothing]
    /\ live = [id \in U8 |-> IF id \in pool THEN 1 ELSE 0]

(***************************************************************************)
(* Part 2.  Frames, payloads, hashes and the text of a token.              *)
(***************************************************************************)

\* the opcode of a fatal error frame (wsm/header.rs, used by auth.rs and
\* endpoints.rs)
OPCODE_ERROR_FATAL == 255

\* the value of the reserved byte that marks a final frame
RESERVED_FINAL_FLAG == 255

\* worker::CHUNK_SIZE
CHUNK_SIZE == 512 * 1024

\* the capacity of the outgoing queue: mpsc::channel::<Vec<u8>>(32)
CHANNEL_CAPACITY == 32

\* the content of a chunk is one of MaxData values; a file of n chunks is a
\* sequence of n of them.  0 stands for bytes nobody wrote (a hole).
MaxData == 2

Data == 1 .. MaxData

\* the files of this model have at most MaxChunks chunks
MaxChunks == 1

ChunkIds == 0 .. (MaxChunks - 1)

RECURSIVE SeqsUpTo(_, _)
SeqsUpTo(S, n) ==
    IF n = 0 THEN {<<>>}
    ELSE LET shorter == SeqsUpTo(S, n - 1)
         IN  shorter \cup {Append(q, x) : q \in shorter, x \in S}

\* Sha256::digest(bytes): a function of the bytes without collisions
Sha256(bytes) == <<"sha256", bytes>>

\* hex::encode(hasher.finalize()) / format!("{:x}", hasher.finalize())
HexSha256(bytes) == <<"hex", Sha256(bytes)>>

\* (file_size as f64 / CHUNK_SIZE as f64).ceil() as u64
TotalChunks(file_size) == (file_size + CHUNK_SIZE - 1) \div CHUNK_SIZE

\* UploadMetadata; target_dir and file_name are those of the one target file
\* F of this model
Meta(size, hash) == [file_size |-> size, file_hash |-> hash]

NoMeta == Meta(0, <<>>)

\* the size of a file of n chunks whose last chunk is short
SizeOfChunks(n) == IF n = 0 THEN 0 ELSE ((n - 1) * CHUNK_SIZE) + 1

\* the metadata `rfs upload` computes for a file with this content
MetaOf(content) == Meta(SizeOfChunks(Len(content)), HexSha256(content))

NoPayload == [kind |-> "none", len |-> 0, bytes |-> <<>>, text |-> "", meta |-> NoMeta]

BytesPayload(b) ==
    [kind |-> "bytes", len |-> Len(b), bytes |-> b, text |-> "", meta |-> NoMeta]

TextPayload(t) ==
    [kind |-> "text", len |-> Len(t), bytes |-> <<>>, text |-> t, meta |-> NoMeta]

\* serde_json::to_string(&metadata): a text of more than 0 bytes that parses
\* back to the metadata
JsonPayload(m) ==
    [kind |-> "json", len |-> Len("{}") + Len(m.file_hash), bytes |-> <<>>, text |-> "",
     meta |-> m]

\* a payload that serde_json::from_slice rejects
BadJsonPayload ==
    [kind |-> "badjson", len |-> Len("{"), bytes |-> <<>>, text |-> "{", meta |-> NoMeta]

\* a frame: the header fields and the payload that follows the header;
\* payload_len is payload.len
Frame(op, id, res, pl) ==
    [opcode |-> op, message_id |-> id, reserved |-> res, payload |-> pl]

\* WsmHeader::new: reserved = 0
NewFrame(op, id, pl) == Frame(op, id, 0, pl)

\* WsmHeader::with_reserved
FrameWithReserved(op, id, pl, res) == Frame(op, id, res, pl)

\* WsmHeader::is_final
IsFinal(fr) == fr.reserved = RESERVED_FINAL_FLAG

\* ---- String::from_utf8_lossy -------------------------------------------

REPLACEMENT_CHARACTER == 65533

IsCont(b) == b \in 128 .. 191

\* utf8_char_width
Utf8Width(b) ==
    IF b < 128 THEN 1
    ELSE IF b \in 194 .. 223 THEN 2
    ELSE IF b \in 224 .. 239 THEN 3
    ELSE IF b \in 240 .. 244 THEN 4
    ELSE 0

\* the second byte a lead byte of width 3 or 4 admits
SecondOk(lead, b) ==
    IF lead = 224 THEN b \in 160 .. 191
    ELSE IF lead = 237 THEN b \in 128 .. 159
    ELSE IF lead = 240 THEN b \in 144 .. 191
    ELSE IF lead = 244 THEN b \in 128 .. 143
    ELSE IsCont(b)

\* how many bytes of s, from its first byte on, form one valid scalar value
\* (then ok) or one maximal invalid part (then not ok)
Utf8Step(s) ==
    LET w == Utf8Width(s[1])
        n == Len(s)
    IN  IF w = 1 THEN [ok |-> TRUE, used |-> 1, cp |-> s[1]]
        ELSE IF w = 0 THEN [ok |-> FALSE, used |-> 1, cp |-> 0]
        ELSE IF w = 2 THEN
            IF n >= 2 /\ IsCont(s[2])
            THEN [ok |-> TRUE, used |-> 2, cp |-> ((s[1] - 192) * 64) + (s[2] - 128)]
            ELSE [ok |-> FALSE, used |-> 1, cp |-> 0]
        ELSE IF ~(n >= 2 /\ SecondOk(s[1], s[2])) THEN [ok |-> FALSE, used |-> 1, cp |-> 0]
        ELSE IF ~(n >= 3 /\ IsCont(s[3])) THEN [ok |-> FALSE, used |-> 2, cp |-> 0]
        ELSE IF w = 3 THEN
            [ok |-> TRUE, used |-> 3,
             cp |-> ((s[1] - 224) * 4096) + ((s[2] - 128) * 64) + (s[3] - 128)]
        ELSE IF ~(n >= 4 /\ IsCont(s[4])) THEN [ok |-> FALSE, used |-> 3, cp |-> 0]
        ELSE [ok |-> TRUE, used |-> 4,
              cp |-> ((s[1] - 240) * 262144) + ((s[2] - 128) * 4096)
                     + ((s[3] - 128) * 64) + (s[4] - 128)]

\* the text (a sequence of scalar values) String::from_utf8_lossy gives for
\* the bytes: every maximal invalid part becomes U+FFFD
RECURSIVE Utf8Lossy(_)
Utf8Lossy(s) ==
    IF s = <<>> THEN <<>>
    ELSE LET st == Utf8Step(s)
         IN  <<IF st.ok THEN st.cp ELSE REPLACEMENT_CHARACTER>>
             \o Utf8Lossy(SubSeq(s, st.used + 1, Len(s)))

\* the bytes of one scalar value
Utf8EncodeChar(c) ==
    IF c < 128 THEN <<c>>
    ELSE IF c < 2048 THEN <<192 + (c \div 64), 128 + (c % 64)>>
    ELSE IF c < 65536 THEN <<224 + (c \div 4096), 128 + ((c \div 64) % 64), 128 + (c % 64)>>
    ELSE <<240 + (c \div 262144), 128 + ((c \div 4096) % 64),
           128 + ((c \div 64) % 64), 128 + (c % 64)>>

\* String::as_bytes
RECURSIVE Utf8Encode(_)
Utf8Encode(text) ==
    IF text = <<>> THEN <<>>
    ELSE Utf8EncodeChar(Head(text)) \o Utf8Encode(Tail(text))

\* received_token == *expected_token, with received_token the lossy text
TokenMatchesBytewise(bytes, token) == bytes = Utf8Encode(token)

TokenMatches(bytes, token) == Utf8Lossy(bytes) = token

(***************************************************************************)
(* Part 3.  The server: quic/service.rs handle_connection, the dispatcher  *)
(* wsm/endpoints.rs dispatch_server and the handlers it calls, for the one *)
(* target file F of the one configured volume.                             *)
(***************************************************************************)
VARIABLES
    mode,       \* "server" or "client": which mode of the program runs (main.rs)
    sToken,     \* cfg.setup.auth_token, a text
    sConn,      \* the number of the connection handle_connection serves
    sAuth,      \* auth_state of that connection
    sPc,        \* where its loop is: "read", "break" (dispatch said Break), "done"
    sClose,     \* the conn.close the server has called on it
    sTx,        \* the frames queued in the mpsc channel of the sender task
    sessions,   \* ongoing_uploads of that connection: the metadata by file_hash
    fin,        \* the finalize tasks tokio::spawn started
    fsFinal,    \* the file F
    fsLock,     \* whether F.lock exists
    fsHash,     \* the file F.hash
    fsTmp,      \* the directory F.tmp and its chunk_<i> files
    sw,         \* the worker stream the server has accepted
    gFinSeen,   \* history: a finalize request has started a task
    gLastInit,  \* history: the file_hash of the last initiation acknowledged
    gSucceeded  \* history: assemble_and_verify has returned true

serverVars == <<sToken, sConn, sAuth, sPc, sClose, sTx, sessions, fin>>

fsVars == <<fsFinal, fsLock, fsHash, fsTmp>>

ghostVars == <<gFinSeen, gLastInit, gSucceeded>>

\* the connections one run of the model goes through
MaxConns == 2

\* the frames the model lets wait in an outgoing queue
MaxQueue == 1

\* the finalize tasks that can be alive at once
NumFinTasks == 2

FinTasks == 1 .. NumFinTasks

NotClosed == [closed |-> FALSE, code |-> 0, reason |-> ""]

Closed(code, reason) == [closed |-> TRUE, code |-> code, reason |-> reason]

AbsentFile == [exists |-> FALSE, content |-> <<>>]

FileOf(c) == [exists |-> TRUE, content |-> c]

NoChunks == [c \in ChunkIds |-> <<>>]

NoTmp == [exists |-> FALSE, chunks |-> NoChunks]

EmptyTmp == [exists |-> TRUE, chunks |-> NoChunks]

IdleFin == [pc |-> "idle", meta |-> NoMeta, message_id |-> 0, conn |-> 0, i |-> 0,
            success |-> FALSE]

\* ---- quic/auth.rs, quic/keepalive.rs, rfs/list.rs ------------------------

UnauthorizedFrame(id) ==
    FrameWithReserved(OPCODE_ERROR_FATAL, id, TextPayload("Unauthenticated"),
                      RESERVED_FINAL_FLAG)

AuthSuccessFrame(id) == FrameWithReserved(0, id, NoPayload, RESERVED_FINAL_FLAG)

AuthFailureFrame(id) ==
    FrameWithReserved(0, id, TextPayload("Invalid authentication token"),
                      RESERVED_FINAL_FLAG)

\* build_pong_header
PongFrame(id) == FrameWithReserved(2, id, NoPayload, RESERVED_FINAL_FLAG)

ListResponseFrame(id) ==
    FrameWithReserved(4, id, TextPayload("[{\"dev_name\":\"dev\",\"bind_path\":\"/srv\"}]"),
                      RESERVED_FINAL_FLAG)

\* the test at the head of dispatch_server, with every opcode but PING and
\* AuthRequest let through
GateDeniesNothingKnown(state, opcode) ==
    state = "Unauthenticated" /\ opcode \notin {1, 3, 5, 6, 7, 16}

\* the test at the head of dispatch_server
GateDenies(state, opcode) ==
    state = "Unauthenticated" /\ opcode \notin {1, 3}

SendUnauthorized(fr) ==
    /\ sTx' = Append(sTx, UnauthorizedFrame(fr.message_id))
    /\ sPc' = "break"
    /\ UNCHANGED <<sAuth, sessions, fin, fsVars, ghostVars>>

HandlePingRequest(fr) ==
    /\ sTx' = Append(sTx, PongFrame(fr.message_id))
    /\ UNCHANGED <<sAuth, sPc, sessions, fin, fsVars, ghostVars>>

\* what the mismatch branch of handle_auth_request leaves in auth_state, had
\* it reset the state
AfterMismatchReset(state) == "Unauthenticated"

\* what the mismatch branch of handle_auth_request leaves in auth_state
AfterMismatch(state) == state

HandleAuthRequest(fr) ==
    /\ IF TokenMatches(fr.payload.bytes, sToken)
       THEN /\ sAuth' = "Authenticated"
            /\ sTx' = Append(sTx, AuthSuccessFrame(fr.message_id))
            /\ sPc' = "read"
       ELSE /\ sAuth' = AfterMismatch(sAuth)
            /\ sTx' = Append(sTx, AuthFailureFrame(fr.message_id))
            /\ sPc' = "break"
    /\ UNCHANGED <<sessions, fin, fsVars, ghostVars>>

HandleListRequest(fr) ==
    /\ sTx' = Append(sTx, ListResponseFrame(fr.message_id))
    /\ UNCHANGED <<sAuth, sPc, sessions, fin, fsVars, ghostVars>>

\* ---- rfs/upload.rs, the server's handlers -------------------------------

\* what prepare_upload_directory returns, had it never resumed
PrepareResultFresh(meta) == IF fsFinal.exists THEN "Err" ELSE "New"

\* prepare_upload_directory: what it returns
PrepareResult(meta) ==
    IF fsFinal.exists THEN "Err"
    ELSE IF fsLock
         THEN IF ~fsHash.exists THEN "Err"
              ELSE IF fsHash.content = meta.file_hash THEN "Resumable"
              ELSE "New"
         ELSE "New"

\* a preparation that leaves the directory F.tmp of a stale upload as it is
PrepareEffectKeepsTmp(meta) ==
    IF PrepareResult(meta) = "New"
    THEN /\ fsLock' = TRUE
         /\ fsHash' = FileOf(meta.file_hash)
         /\ fsTmp' = IF ~fsTmp.exists THEN EmptyTmp ELSE fsTmp
         /\ UNCHANGED fsFinal
    ELSE UNCHANGED fsVars

\* prepare_upload_directory: what it does to the files.  A stale upload (lock
\* present, another hash) is wiped first; create_dir_all keeps a directory
\* that is there.
PrepareEffect(meta) ==
    IF PrepareResult(meta) = "New"
    THEN /\ fsLock' = TRUE
         /\ fsHash' = FileOf(meta.file_hash)
         /\ fsTmp' = IF fsLock \/ ~fsTmp.exists THEN EmptyTmp ELSE fsTmp
         /\ UNCHANGED fsFinal
    ELSE UNCHANGED fsVars

\* HashMap::insert(metadata.file_hash, metadata)
InsertSession(map, meta) ==
    {m \in map : m.file_hash # meta.file_hash} \cup {meta}

\* HashMap::remove(&file_hash)
RemoveSession(map, hash) == {m \in map : m.file_hash # hash}

InitAckFrame(id, result) ==
    NewFrame(0, id, BytesPayload(<<IF result = "New" THEN 1 ELSE 2>>))

HandleInitRequest(fr) ==
    IF fr.payload.kind = "json"
    THEN /\ PrepareEffect(fr.payload.meta)
         /\ IF PrepareResult(fr.payload.meta) # "Err"
            THEN /\ sessions' = InsertSession(sessions, fr.payload.meta)
                 /\ sTx' = Append(sTx, InitAckFrame(fr.message_id,
                                                    PrepareResult(fr.payload.meta)))
                 /\ gLastInit' = fr.payload.meta.file_hash
            ELSE UNCHANGED <<sessions, sTx, gLastInit>>
         /\ UNCHANGED <<sAuth, sPc, fin, gFinSeen, gSucceeded>>
    ELSE UNCHANGED <<sAuth, sPc, sTx, sessions, fin, fsVars, ghostVars>>

WorkerAckFrame(id) == NewFrame(0, id, NoPayload)

HandleWorkerRequest(fr) ==
    /\ sTx' = IF fr.payload.len = 1 THEN Append(sTx, WorkerAckFrame(fr.message_id))
              ELSE sTx
    /\ UNCHANGED <<sAuth, sPc, sessions, fin, fsVars, ghostVars>>

\* the task tokio::spawn gets: the lowest free place of the model
FreeFin == {k \in FinTasks : fin[k].pc = "idle"}

HandleFinalizeRequest(fr) ==
    IF fr.payload.kind = "json"
    THEN /\ FreeFin # {}
         /\ LET k == CHOOSE k \in FreeFin : \A j \in FreeFin : k <= j
            IN  fin' = [fin EXCEPT ![k] =
                    [pc |-> "check", meta |-> fr.payload.meta,
                     message_id |-> fr.message_id, conn |-> sConn, i |-> 0,
                     success |-> FALSE]]
         /\ gFinSeen' = TRUE
         /\ UNCHANGED <<sAuth, sPc, sTx, sessions, fsVars, gLastInit, gSucceeded>>
    ELSE UNCHANGED <<sAuth, sPc, sTx, sessions, fin, fsVars, ghostVars>>

\* dispatch_server for one frame read from the control stream
ServerDispatch(fr) ==
    /\ sPc = "read"
    /\ Len(sTx) < CHANNEL_CAPACITY
    /\ IF GateDenies(sAuth, fr.opcode) THEN SendUnauthorized(fr)
       ELSE IF fr.opcode = 1 THEN HandlePingRequest(fr)
       ELSE IF fr.opcode = 3 THEN HandleAuthRequest(fr)
       ELSE IF fr.opcode = 5 THEN HandleListRequest(fr)
       ELSE IF fr.opcode = 6 THEN HandleInitRequest(fr)
       ELSE IF fr.opcode = 7 THEN HandleWorkerRequest(fr)
       ELSE IF fr.opcode = 16 THEN HandleFinalizeRequest(fr)
       ELSE UNCHANGED <<sAuth, sPc, sTx, sessions, fin, fsVars, ghostVars>>
    /\ UNCHANGED <<sToken, sConn, sClose, sw>>

\* ---- quic/service.rs handle_connection -----------------------------------

\* dispatch_server returned Break: conn.close(2, "auth failure"), leave the
\* loop, sender_task.abort().  What the sender task had not written stays
\* unwritten.
ServerClose ==
    /\ sPc = "break"
    /\ sPc' = "done"
    /\ sClose' = Closed(2, "auth failure")
    /\ UNCHANGED <<sToken, sConn, sAuth, sTx, sessions, fin, fsVars, sw, ghostVars>>

\* no header within 15 s
ServerTimeout ==
    /\ sPc = "read"
    /\ sPc' = "done"
    /\ sClose' = Closed(0, "keep-alive timeout")
    /\ UNCHANGED <<sToken, sConn, sAuth, sTx, sessions, fin, fsVars, sw, ghostVars>>

\* read_exact failed: the peer closed or was lost
ServerReadError ==
    /\ sPc = "read"
    /\ sPc' = "done"
    /\ UNCHANGED <<sToken, sConn, sAuth, sClose, sTx, sessions, fin, fsVars, sw, ghostVars>>

\* the sender task takes the next frame of the channel and writes it to the
\* control stream; it runs until the loop has ended
SenderTake ==
    /\ sPc # "done"
    /\ sTx # <<>>
    /\ sTx' = Tail(sTx)
    /\ UNCHANGED <<sToken, sConn, sAuth, sPc, sClose, sessions, fin, fsVars, sw, ghostVars>>

\* the endpoint hands the next connection to handle_connection
ServerAccept ==
    /\ sPc = "done"
    /\ sConn < MaxConns
    /\ sConn' = sConn + 1
    /\ sAuth' = "Unauthenticated"
    /\ sPc' = "read"
    /\ sClose' = NotClosed
    /\ sTx' = <<>>
    /\ sessions' = {}
    /\ UNCHANGED <<sToken, fin, fsVars, sw, ghostVars>>

\* ---- rfs/verify.rs assemble_and_verify, run by the spawned task ----------

ChunkExists(i) == i \in ChunkIds /\ fsTmp.exists /\ fsTmp.chunks[i] # <<>>

\* write_all of one chunk through a file handle that has written i chunks:
\* the bytes land behind the i-th chunk, whatever the file holds by now
WriteAt(content, i, d) ==
    LET padded == content \o [j \in 1 .. (i - Len(content)) |-> 0]
    IN  IF Len(padded) > i THEN [padded EXCEPT ![i + 1] = d] ELSE Append(padded, d)

FinFail(k) == fin' = [fin EXCEPT ![k].pc = "reply", ![k].success = FALSE]

\* "Verify all chunks exist"
FinCheck(k) ==
    /\ fin[k].pc = "check"
    /\ IF \A i \in 0 .. (TotalChunks(fin[k].meta.file_size) - 1) : ChunkExists(i)
       THEN fin' = [fin EXCEPT ![k].pc = "create"]
       ELSE FinFail(k)
    /\ UNCHANGED <<sToken, sConn, sAuth, sPc, sClose, sTx, sessions, fsVars, sw, ghostVars>>

\* File::create(final_file_path): creates or truncates
FinCreate(k) ==
    /\ fin[k].pc = "create"
    /\ fsFinal' = FileOf(<<>>)
    /\ fin' = [fin EXCEPT ![k].pc = IF TotalChunks(fin[k].meta.file_size) = 0
                                    THEN "verify" ELSE "append",
                          ![k].i = 0]
    /\ UNCHANGED <<sToken, sConn, sAuth, sPc, sClose, sTx, sessions, fsLock, fsHash, fsTmp, sw, ghostVars>>

\* one round of the assembly loop: read chunk_<i>, append it
FinAppend(k) ==
    /\ fin[k].pc = "append"
    /\ IF ChunkExists(fin[k].i)
       THEN /\ fsFinal' = FileOf(WriteAt(fsFinal.content, fin[k].i,
                                         fsTmp.chunks[fin[k].i][1]))
            /\ fin' = [fin EXCEPT ![k].i = fin[k].i + 1,
                                  ![k].pc = IF fin[k].i + 1
                                               = TotalChunks(fin[k].meta.file_size)
                                            THEN "verify" ELSE "append"]
       ELSE /\ FinFail(k)
            /\ UNCHANGED fsFinal
    /\ UNCHANGED <<sToken, sConn, sAuth, sPc, sClose, sTx, sessions, fsLock, fsHash, fsTmp, sw, ghostVars>>

\* reopen the final file, hash it, compare with metadata.file_hash; a
\* mismatch returns false and leaves the file
FinVerify(k) ==
    /\ fin[k].pc = "verify"
    /\ IF fsFinal.exists /\ HexSha256(fsFinal.content) = fin[k].meta.file_hash
       THEN fin' = [fin EXCEPT ![k].pc = "cleanup"]
       ELSE FinFail(k)
    /\ UNCHANGED <<sToken, sConn, sAuth, sPc, sClose, sTx, sessions, fsVars, sw, ghostVars>>

\* remove F.lock, F.hash and F.tmp, errors ignored; return true
FinCleanup(k) ==
    /\ fin[k].pc = "cleanup"
    /\ fsLock' = FALSE
    /\ fsHash' = AbsentFile
    /\ fsTmp' = NoTmp
    /\ fin' = [fin EXCEPT ![k].pc = "reply", ![k].success = TRUE]
    /\ gSucceeded' = TRUE
    /\ UNCHANGED <<sToken, sConn, sAuth, sPc, sClose, sTx, sessions, fsFinal, sw, gFinSeen,
                   gLastInit>>

\* the finalize result, had the task taken the id of the frame being handled
\* when it replies and not the one it was spawned with
FinalizeAckFrameCurrentId(id, success) ==
    FrameWithReserved(0, (id + 1) % (U8_MAX + 1),
                      BytesPayload(<<IF success THEN 1 ELSE 0>>), RESERVED_FINAL_FLAG)

FinalizeAckFrame(id, success) ==
    FrameWithReserved(0, id, BytesPayload(<<IF success THEN 1 ELSE 0>>),
                      RESERVED_FINAL_FLAG)

\* whether the channel of the task's connection still has its receiver
TxOpen(conn) == conn = sConn /\ sPc # "done"

\* back in the spawned task of handle_finalize_request: drop the session,
\* queue the reply
FinReply(k) ==
    /\ fin[k].pc = "reply"
    /\ IF fin[k].conn = sConn
       THEN sessions' = RemoveSession(sessions, fin[k].meta.file_hash)
       ELSE UNCHANGED sessions
    /\ IF TxOpen(fin[k].conn)
       THEN /\ Len(sTx) < CHANNEL_CAPACITY
            /\ sTx' = Append(sTx, FinalizeAckFrame(fin[k].message_id, fin[k].success))
       ELSE UNCHANGED sTx
    /\ fin' = [fin EXCEPT ![k] = IdleFin]
    /\ UNCHANGED <<sToken, sConn, sAuth, sPc, sClose, fsVars, sw, ghostVars>>

\* ---- the worker streams: service.rs associate_and_run_worker and -------
\* ---- rfs/worker.rs handle_worker_stream ----------------------------------

NoPending == [c \in ChunkIds |-> <<>>]

NoReply == NewFrame(0, 0, TextPayload("nothing written"))

ClosedWorker == [pc |-> "closed", meta |-> NoMeta, pending |-> NoPending, out |-> NoReply]

\* what the client writes to a worker stream
HelloFrame(hash) == [opcode |-> 17, chunk_id |-> 0, hash |-> hash, data |-> <<>>]

InquiryFrame(c, hash) == [opcode |-> 8, chunk_id |-> c, hash |-> hash, data |-> <<>>]

DataFrame(c, d) == [opcode |-> 9, chunk_id |-> c, hash |-> <<>>, data |-> d]

\* what the server writes back: [load = 1 | skip = 2], final only for skip
InquiryReply(code) ==
    FrameWithReserved(0, 0, BytesPayload(<<code>>),
                      IF code = 2 THEN RESERVED_FINAL_FLAG ELSE 0)

DataReply(is_final) ==
    FrameWithReserved(0, 0, NoPayload, IF is_final THEN RESERVED_FINAL_FLAG ELSE 0)

\* a stream is accepted and its first frame read: a Hello whose hash names a
\* session starts handle_worker_stream with a clone of the metadata
AssociateAndRunWorker(wf) ==
    /\ sw.pc = "closed"
    /\ sPc # "done"
    /\ IF wf.opcode = 17 /\ \E m \in sessions : m.file_hash = wf.hash
       THEN sw' = [ClosedWorker EXCEPT
                      !.pc = "run",
                      !.meta = CHOOSE m \in sessions : m.file_hash = wf.hash]
       ELSE UNCHANGED sw
    /\ UNCHANGED <<serverVars, fsVars, ghostVars>>

\* a response code that takes every stored chunk for the chunk of the client
InquiryCodeByPresence(c, client_hash) == IF ChunkExists(c) THEN 2 ELSE 1

\* the response code of handle_chunk_inquiry
InquiryCode(c, client_hash) ==
    IF ChunkExists(c) /\ Sha256(fsTmp.chunks[c]) = client_hash THEN 2 ELSE 1

HandleChunkInquiry(wf) ==
    /\ sw' = [sw EXCEPT
                 !.pending = IF InquiryCode(wf.chunk_id, wf.hash) = 1
                             THEN [sw.pending EXCEPT ![wf.chunk_id] = wf.hash]
                             ELSE sw.pending,
                 !.out = InquiryReply(InquiryCode(wf.chunk_id, wf.hash))]
    /\ UNCHANGED fsVars

\* a handler that writes the data of every chunk an inquiry has announced
HandleChunkDataUnverified(wf) ==
    LET saved == sw.pending[wf.chunk_id] # <<>> /\ fsTmp.exists
    IN  /\ sw' = [sw EXCEPT !.pending = [sw.pending EXCEPT ![wf.chunk_id] = <<>>],
                            !.out = DataReply(saved)]
        /\ fsTmp' = IF saved
                    THEN [fsTmp EXCEPT !.chunks = [fsTmp.chunks EXCEPT ![wf.chunk_id] = wf.data]]
                    ELSE fsTmp
        /\ UNCHANGED <<fsFinal, fsLock, fsHash>>

\* handle_chunk_data: the chunk is written when a hash is pending for it and
\* the data has that hash; tokio::fs::write needs the directory F.tmp
HandleChunkData(wf) ==
    LET expected == sw.pending[wf.chunk_id]
        saved == expected # <<>> /\ Sha256(wf.data) = expected /\ fsTmp.exists
    IN  /\ sw' = [sw EXCEPT !.pending = [sw.pending EXCEPT ![wf.chunk_id] = <<>>],
                            !.out = DataReply(saved)]
        /\ fsTmp' = IF saved
                    THEN [fsTmp EXCEPT !.chunks = [fsTmp.chunks EXCEPT ![wf.chunk_id] = wf.data]]
                    ELSE fsTmp
        /\ UNCHANGED <<fsFinal, fsLock, fsHash>>

\* one round of the loop of handle_worker_stream
HandleWorkerStream(wf) ==
    /\ sw.pc = "run"
    /\ IF wf.opcode = 8 THEN HandleChunkInquiry(wf)
       ELSE IF wf.opcode = 9 /\ wf.data # <<>> THEN HandleChunkData(wf)
       ELSE IF wf.opcode = 9 THEN UNCHANGED <<sw, fsVars>>
       ELSE sw' = ClosedWorker /\ UNCHANGED fsVars
    /\ UNCHANGED <<serverVars, ghostVars>>

\* read_exact fails: the stream or the connection ended
WorkerStreamEnd ==
    /\ sw.pc = "run"
    /\ sw' = ClosedWorker
    /\ UNCHANGED <<serverVars, fsVars, ghostVars>>

\* ---- the server against every client -------------------------------------

\* the message ids the peer of the model uses
MaxMsgId == 1

MsgIds == 0 .. MaxMsgId

\* the bytes of the payloads of AuthRequest: "a", the three bytes of U+FFFD
\* and a byte no UTF-8 text holds
AuthBytes == {97, 189, 191, 239, 255}

MaxTokenLen == 3

AuthPayloads == {BytesPayload(b) : b \in SeqsUpTo(AuthBytes, MaxTokenLen)}

\* the configured tokens: "a", the text U+FFFD, the empty text
Tokens == {<<97>>, <<REPLACEMENT_CHARACTER>>, <<>>}

\* the metadata of the empty file
EmptyFileMeta == MetaOf(<<>>)

\* the file the uploads of the model are about: MaxChunks chunks, all of the
\* first content
UploadFile == [i \in 1 .. MaxChunks |-> 1]

UploadMetas == {MetaOf(UploadFile)}

\* the file of the upload whose workers run side by side: StreamChunks
\* chunks, no two neighbours of the same content
StreamChunks == 2

StreamFile == [i \in 1 .. StreamChunks |-> ((i - 1) % MaxData) + 1]

\* the local file an upload with this metadata was begun for
LocalFile(meta) == IF meta = MetaOf(StreamFile) THEN StreamFile ELSE UploadFile

MetaPayloads(metas) == {NoPayload, BadJsonPayload} \cup {JsonPayload(m) : m \in metas}

\* what a client can write to the control stream, with every AuthRequest
\* payload of the model; of the uploads, the initiation of the empty file and
\* the finalize requests the handler drops
AuthClientFrames ==
    {NewFrame(op, id, NoPayload) : op \in {1, 5, 7, 9}, id \in MsgIds}
    \cup {NewFrame(3, id, pl) : id \in MsgIds, pl \in AuthPayloads}
    \cup {NewFrame(6, id, pl) : id \in MsgIds, pl \in MetaPayloads({EmptyFileMeta})}
    \cup {NewFrame(16, id, pl) : id \in MsgIds, pl \in MetaPayloads({})}
    \cup {NewFrame(7, id, BytesPayload(<<1>>)) : id \in MsgIds}

\* what a client can write to a worker stream
WorkerFrames ==
    {HelloFrame(m.file_hash) : m \in UploadMetas}
    \cup {InquiryFrame(c, Sha256(<<d>>)) : c \in ChunkIds, d \in Data}
    \cup {DataFrame(c, dd) : c \in ChunkIds, dd \in SeqsUpTo(Data, 1)}
    \cup {HelloFrame(<<>>)}

ServerInit ==
    /\ sToken \in Tokens
    /\ sConn = 1
    /\ sAuth = "Unauthenticated"
    /\ sPc = "read"
    /\ sClose = NotClosed
    /\ sTx = <<>>
    /\ sessions = {}
    /\ fin = [k \in FinTasks |-> IdleFin]
    /\ fsFinal = AbsentFile
    /\ fsLock = FALSE
    /\ fsHash = AbsentFile
    /\ fsTmp = NoTmp
    /\ sw = ClosedWorker
    /\ gFinSeen = FALSE
    /\ gLastInit = <<>>
    /\ gSucceeded = FALSE

ServerRecv(frames) ==
    \E fr \in frames :
        /\ Len(sTx) < MaxQueue
        /\ ServerDispatch(fr)

\* the pool of a process that allocates nothing
PoolIdle ==
    /\ pool = {}
    /\ poolLock = NoTask
    /\ tpc = [t \in Tasks |-> "idle"]
    /\ targ = [t \in Tasks |-> 0]
    /\ tret = [t \in Tasks |-> RetNothing]
    /\ live = [id \in U8 |-> 0]

(***************************************************************************)
(* Part 4.  The client: quic/client.rs run_network_tasks and               *)
(* connect_and_run, the dispatcher wsm/endpoints.rs dispatch_client, the   *)
(* commands `rfs upload` and `drop`, and the upload workers of             *)
(* rfs/worker.rs.                                                          *)
(***************************************************************************)
VARIABLES
    cPc,          \* the network task: "top" of its loop, "auth_wait", "main", "halted"
    cConn,        \* the connections it has opened
    cAuth,        \* auth_state of the connection
    cStop,        \* stop_reconnecting
    cFailed,      \* first_failure_time is Some
    cTx,          \* the frames queued in the channel of the sender task
    cSent,        \* <<opcode, message id>> of the frames written on this connection
    ctx,          \* the shared upload context
    cw,           \* the upload workers of handle_worker_ack
    cCmds,        \* the `rfs upload` tasks that have passed the context test
    cStale        \* the sender tasks of ended connections that still wait on rx

clientVars == <<cPc, cConn, cAuth, cStop, cFailed, cTx, cSent, ctx, cw, cCmds, cStale>>

\* the ids rand::random::<u8>() draws in the model
MaxDrawId == 1

DrawIds == 0 .. MaxDrawId

\* create_new_msg_id returned None
NoId == 256

\* what create_new_msg_id can return for this pool
AllocChoices(p) == IF PoolFull(p) THEN {NoId} ELSE DrawIds \ p

\* calculate_workers
MAX_WORKERS == 32

CalculateWorkers(file_size) ==
    IF file_size = 0 THEN 1
    ELSE LET workers == IF TotalChunks(file_size) > U8_MAX THEN U8_MAX
                        ELSE TotalChunks(file_size)
         IN  IF workers < 1 THEN 1 ELSE IF workers > MAX_WORKERS THEN MAX_WORKERS ELSE workers

\* the workers one upload of the model starts
Workers == 1 .. CalculateWorkers(MetaOf(UploadFile).file_size)

NoCtx == [some |-> FALSE, state |-> "None", message_id |-> 0, meta |-> NoMeta,
          total_chunks |-> 0, chunk_queue |-> <<>>, completed_chunks |-> 0]

OffWorker == [pc |-> "off", meta |-> NoMeta, chunk |-> 0, out |-> HelloFrame(<<>>)]

\* ---- cli/rfs/upload.rs execute and cli/drop.rs ----------------------------

\* the `rfs upload` tasks the model has between the test and the allocation
MaxCmds == 2

\* `rfs upload`, each command in a task of its own, up to the hashing of the
\* file: refused while a context is there
CmdUploadCheck ==
    /\ IF ctx.some
       THEN UNCHANGED cCmds
       ELSE cCmds < MaxCmds /\ cCmds' = cCmds + 1
    /\ UNCHANGED <<pool, cPc, cConn, cAuth, cStop, cFailed, cTx, cSent, ctx, cw, cStale>>

\* `rfs upload` behind the context test: the file cannot be read, or an id is
\* allocated, the context recorded and the initiation queued
UploadCommit(meta, new_id, hash_ok) ==
    /\ Len(cTx) < CHANNEL_CAPACITY
    /\ IF ~hash_ok \/ new_id = NoId
       THEN UNCHANGED <<pool, ctx, cTx>>
       ELSE /\ pool' = pool \cup {new_id}
            /\ ctx' = [NoCtx EXCEPT !.some = TRUE, !.state = "Initiated",
                                    !.message_id = new_id, !.meta = meta]
            /\ cTx' = Append(cTx, NewFrame(6, new_id, JsonPayload(meta)))
    /\ UNCHANGED <<cPc, cConn, cAuth, cStop, cFailed, cSent, cw, cStale>>

\* `rfs upload` behind the hashing, in a command task that passed the test
CmdUpload(meta, new_id, hash_ok) ==
    /\ cCmds > 0
    /\ cCmds' = cCmds - 1
    /\ UploadCommit(meta, new_id, hash_ok)

\* an `rfs upload` that runs from the context test to its end while no other
\* command task does
RfsUpload(meta, new_id, hash_ok) ==
    /\ cCmds = 0
    /\ ~ctx.some
    /\ UploadCommit(meta, new_id, hash_ok)
    /\ UNCHANGED cCmds

\* msg_id::drain_msg_id_pool: what it leaves in the pool
DrainMsgIdPool(p) == {}

\* `drop`: drain_msg_id_pool
CmdDrop ==
    /\ pool' = DrainMsgIdPool(pool)
    /\ UNCHANGED clientVars

\* cli/ping.rs: `ping`, build_client_ping and the frame queued; nothing
\* when the pool gives no id
CmdPing(new_id) ==
    /\ Len(cTx) < CHANNEL_CAPACITY
    /\ IF new_id = NoId
       THEN UNCHANGED <<pool, cTx>>
       ELSE /\ pool' = pool \cup {new_id}
            /\ cTx' = Append(cTx, NewFrame(1, new_id, NoPayload))
    /\ UNCHANGED <<cPc, cConn, cAuth, cStop, cFailed, cSent, ctx, cw, cCmds, cStale>>

\* cli/rfs/list.rs execute: `rfs list`
CmdList(new_id) ==
    /\ Len(cTx) < CHANNEL_CAPACITY
    /\ IF new_id = NoId
       THEN UNCHANGED <<pool, cTx>>
       ELSE /\ pool' = pool \cup {new_id}
            /\ cTx' = Append(cTx, NewFrame(5, new_id, NoPayload))
    /\ UNCHANGED <<cPc, cConn, cAuth, cStop, cFailed, cSent, ctx, cw, cCmds, cStale>>

\* ---- quic/client.rs -------------------------------------------------------

\* the return of connect_and_run with an error, in run_network_tasks: halt if
\* the flag is set; else note the first failure, drain the pool when it is
\* more than 30 s old, and go round after 3 s.  The flag is stored only
\* inside connect_and_run, so the test at the head of the loop never sees it
\* set: every return with the flag set has left through the test here.
ErrReturn(stop, p, drain) ==
    IF stop THEN [pc |-> "halted", pool |-> p, failed |-> cFailed]
    ELSE IF cFailed /\ drain THEN [pc |-> "top", pool |-> DrainMsgIdPool(p), failed |-> FALSE]
    ELSE [pc |-> "top", pool |-> p, failed |-> TRUE]

\* connect_and_run up to the queueing of the AuthRequest
ClientConnect(new_id) ==
    /\ cPc = "top"
    /\ ~cStop
    /\ cConn < MaxConns
    /\ Len(cTx) < CHANNEL_CAPACITY
    /\ cConn' = cConn + 1
    /\ cAuth' = "Unauthenticated"
    /\ cSent' = {}
    /\ pool' = IF new_id = NoId THEN pool ELSE pool \cup {new_id}
    /\ cTx' = Append(cTx, NewFrame(3, IF new_id = NoId THEN 0 ELSE new_id,
                                   BytesPayload(Utf8Encode(sToken))))
    /\ cPc' = "auth_wait"
    /\ UNCHANGED <<cStop, cFailed, ctx, cw, cCmds, cStale>>

\* the endpoint cannot connect or open the control stream
ClientConnectError(drain) ==
    /\ cPc = "top"
    /\ ~cStop
    /\ LET r == ErrReturn(cStop, pool, drain)
       IN  cPc' = r.pc /\ pool' = r.pool /\ cFailed' = r.failed
    /\ UNCHANGED <<cConn, cAuth, cStop, cTx, cSent, ctx, cw, cCmds, cStale>>

\* the sender task writes the next frame of the channel to the control stream
ClientSenderTake ==
    /\ cTx # <<>>
    /\ cTx' = Tail(cTx)
    /\ IF cStale > 0
       THEN /\ cStale' = cStale - 1
            /\ UNCHANGED cSent
       ELSE /\ cPc \in {"auth_wait", "main"}
            /\ cSent' = cSent \cup {<<Head(cTx).opcode, Head(cTx).message_id>>}
            /\ UNCHANGED cStale
    /\ UNCHANGED <<pool, cPc, cConn, cAuth, cStop, cFailed, ctx, cw, cCmds>>

\* ---- wsm/endpoints.rs dispatch_client -------------------------------------

\* the branch of a 0x00 reply that carries the message id of the context, by
\* the state of the context; new_id is what create_new_msg_id returns to
\* handle_init_ack
CtxReply(fr, new_id) ==
    IF ctx.state = "Initiated"
    THEN IF fr.payload.len = 1 /\ new_id # NoId
         THEN [ctx |-> [ctx EXCEPT !.state = "WorkersOpening", !.message_id = new_id],
               pool |-> pool \cup {new_id},
               tx |-> Append(cTx, NewFrame(7, new_id,
                          BytesPayload(<<CalculateWorkers(ctx.meta.file_size)>>))),
               spawn |-> FALSE]
         ELSE [ctx |-> NoCtx, pool |-> pool, tx |-> cTx, spawn |-> FALSE]
    ELSE IF ctx.state = "WorkersOpening"
    THEN [ctx |-> [ctx EXCEPT
                      !.state = "Streaming",
                      !.total_chunks = TotalChunks(ctx.meta.file_size),
                      !.chunk_queue = [i \in 1 .. TotalChunks(ctx.meta.file_size) |-> i - 1]],
          pool |-> pool, tx |-> cTx, spawn |-> TRUE]
    ELSE IF ctx.state = "Finishing"
    THEN [ctx |-> NoCtx, pool |-> pool, tx |-> cTx, spawn |-> FALSE]
    ELSE [ctx |-> ctx, pool |-> pool, tx |-> cTx, spawn |-> FALSE]

\* whether dispatch_client takes the frame for a reply to the upload context
ForContext(fr) == fr.opcode = 0 /\ ctx.some /\ ctx.message_id = fr.message_id

\* whether the dispatch of the frame allocates a message id
NeedsId(fr) == ForContext(fr) /\ ctx.state = "Initiated" /\ fr.payload.len = 1

\* the ids freed behind the match: remove_msg_id for a final frame
AfterMatch(fr, p) == IF IsFinal(fr) THEN p \ {fr.message_id} ELSE p

\* dispatch_client: what it returns and what it leaves in the shared state
ClientDispatch(fr, new_id) ==
    LET same == [flow |-> "Continue", auth |-> cAuth, stop |-> cStop, ctx |-> ctx,
                 pool |-> AfterMatch(fr, pool), tx |-> cTx, spawn |-> FALSE]
    IN  IF ForContext(fr)
        THEN LET r == CtxReply(fr, new_id)
             IN  [same EXCEPT !.ctx = r.ctx, !.pool = r.pool \ {fr.message_id},
                              !.tx = r.tx, !.spawn = r.spawn]
        ELSE IF fr.opcode = 0 /\ cAuth = "Unauthenticated" /\ IsFinal(fr)
        THEN IF fr.payload.len = 0
             THEN [same EXCEPT !.auth = "Authenticated"]
             ELSE [same EXCEPT !.stop = TRUE, !.flow = "Break", !.pool = pool]
        ELSE IF fr.opcode = OPCODE_ERROR_FATAL
        THEN [same EXCEPT !.stop = TRUE, !.flow = "Break", !.pool = pool]
        ELSE same

\* the frames a server writes to the control stream in answer to one request
\* of the opcode op and the message id id
Answers(op, id) ==
    IF op = 1 THEN {PongFrame(id)}
    ELSE IF op = 3 THEN {AuthSuccessFrame(id), AuthFailureFrame(id)}
    ELSE {UnauthorizedFrame(id)} \cup
         (IF op = 5 THEN {ListResponseFrame(id)}
          ELSE IF op = 6 THEN {InitAckFrame(id, "New"), InitAckFrame(id, "Resumable")}
          ELSE IF op = 7 THEN {WorkerAckFrame(id)}
          ELSE IF op = 16 THEN {FinalizeAckFrame(id, TRUE), FinalizeAckFrame(id, FALSE)}
          ELSE {})

\* the frames a server writes in answer to the requests written so far
ServerFrames(sent) == UNION {Answers(s[1], s[2]) : s \in sent}

\* the workers handle_worker_ack spawns
Spawned ==
    [w \in 1 .. CalculateWorkers(ctx.meta.file_size) |-> [OffWorker EXCEPT !.pc = "hello"]]

\* one frame read from the control stream and dispatched: the first one of
\* the connection (cPc = "auth_wait"), after which the auth state is checked
\* and the pool drained, or one of the main loop
ClientRecv(fr, new_id, drain) ==
    /\ cPc \in {"auth_wait", "main"}
    /\ Len(cTx) < CHANNEL_CAPACITY
    /\ LET d == ClientDispatch(fr, new_id)
           failed == d.flow = "Break" \/ (cPc = "auth_wait" /\ d.auth # "Authenticated")
           r == ErrReturn(d.stop, d.pool, drain)
       IN  /\ cAuth' = d.auth
           /\ cStop' = d.stop
           /\ ctx' = d.ctx
           /\ cTx' = d.tx
           /\ cw' = IF d.spawn THEN Spawned ELSE cw
           /\ IF failed
              THEN cPc' = r.pc /\ pool' = r.pool /\ cFailed' = r.failed
              ELSE /\ cPc' = "main"
                   /\ pool' = IF cPc = "auth_wait" THEN DrainMsgIdPool(d.pool) ELSE d.pool
                   /\ cFailed' = cFailed
           /\ cStale' = IF failed THEN cStale + 1 ELSE cStale
    /\ UNCHANGED <<cConn, cSent, cCmds>>

\* read_exact on the control stream fails
ClientReadError(drain) ==
    /\ cPc \in {"auth_wait", "main"}
    /\ LET r == ErrReturn(cStop, pool, drain)
       IN  cPc' = r.pc /\ pool' = r.pool /\ cFailed' = r.failed
    /\ cStale' = cStale + 1
    /\ UNCHANGED <<cConn, cAuth, cStop, cTx, cSent, ctx, cw, cCmds>>

\* ---- rfs/worker.rs run_worker_task ----------------------------------------

\* read_chunk: the chunk of the local file of the upload
LocalChunk(meta, c) == <<LocalFile(meta)[c + 1]>>

\* what the server writes to a worker stream
WorkerReplies ==
    {InquiryReply(code) : code \in 1 .. 3} \cup {DataReply(f) : f \in BOOLEAN}

\* a test that lets every completed chunk of a streaming upload finalize it
WillFinalizeEarly == ctx.some /\ ctx.state = "Streaming"

\* whether one more completed chunk makes check_and_finalize_upload send the
\* finalize request
WillFinalize ==
    ctx.some /\ ctx.state = "Streaming" /\ ctx.completed_chunks + 1 >= ctx.total_chunks

\* check_and_finalize_upload
CheckAndFinalize(new_id) ==
    IF WillFinalize
    THEN /\ Len(cTx) < CHANNEL_CAPACITY
         /\ IF new_id = NoId
            THEN /\ ctx' = [ctx EXCEPT !.state = "Finishing",
                                       !.completed_chunks = ctx.completed_chunks + 1]
                 /\ UNCHANGED <<pool, cTx>>
            ELSE /\ ctx' = [ctx EXCEPT !.state = "Finishing", !.message_id = new_id,
                                       !.completed_chunks = ctx.completed_chunks + 1]
                 /\ pool' = pool \cup {new_id}
                 /\ cTx' = Append(cTx, NewFrame(16, new_id, JsonPayload(ctx.meta)))
    ELSE /\ ctx' = IF ctx.some
                   THEN [ctx EXCEPT !.completed_chunks = ctx.completed_chunks + 1]
                   ELSE ctx
         /\ UNCHANGED <<pool, cTx>>

FinalizeIds == IF WillFinalize THEN AllocChoices(pool) ELSE {NoId}

\* the worker opens its stream and writes the Hello
WorkerStart(w) ==
    /\ cw[w].pc = "hello"
    /\ cw' = IF ctx.some
             THEN [cw EXCEPT ![w].pc = "pick", ![w].meta = ctx.meta,
                             ![w].out = HelloFrame(ctx.meta.file_hash)]
             ELSE [cw EXCEPT ![w] = OffWorker]
    /\ UNCHANGED <<pool, cPc, cConn, cAuth, cStop, cFailed, cTx, cSent, ctx, cCmds, cStale>>

\* a loop head that reads the front of the queue and leaves it there
WorkerPickFront(w, read_ok) ==
    /\ cw[w].pc = "pick"
    /\ ctx.some /\ ctx.chunk_queue # <<>>
    /\ cw' = [cw EXCEPT ![w].pc = "wait_inquiry",
                        ![w].chunk = Head(ctx.chunk_queue),
                        ![w].out = InquiryFrame(Head(ctx.chunk_queue),
                                       Sha256(LocalChunk(cw[w].meta, Head(ctx.chunk_queue))))]
    /\ UNCHANGED <<pool, cPc, cConn, cAuth, cStop, cFailed, cTx, cSent, ctx, cCmds, cStale>>

\* the head of the loop: pop a chunk id, read the chunk, write the inquiry
WorkerPick(w, read_ok) ==
    /\ cw[w].pc = "pick"
    /\ IF ctx.some /\ ctx.chunk_queue # <<>>
       THEN /\ ctx' = [ctx EXCEPT !.chunk_queue = Tail(ctx.chunk_queue)]
            /\ cw' = IF read_ok
                     THEN [cw EXCEPT
                              ![w].pc = "wait_inquiry",
                              ![w].chunk = Head(ctx.chunk_queue),
                              ![w].out = InquiryFrame(Head(ctx.chunk_queue),
                                             Sha256(LocalChunk(cw[w].meta,
                                                               Head(ctx.chunk_queue))))]
                     ELSE cw
       ELSE /\ cw' = [cw EXCEPT ![w] = OffWorker]
            /\ UNCHANGED ctx
    /\ UNCHANGED <<pool, cPc, cConn, cAuth, cStop, cFailed, cTx, cSent, cCmds, cStale>>

\* the answer to the inquiry: load (1) sends the chunk, skip (2) completes it
WorkerInquiryReply(w, r, new_id) ==
    /\ cw[w].pc = "wait_inquiry"
    /\ IF r.opcode = 0 /\ r.payload.len = 1 /\ r.payload.bytes = <<1>>
       THEN /\ cw' = [cw EXCEPT ![w].pc = "wait_data",
                                ![w].out = DataFrame(cw[w].chunk,
                                                     LocalChunk(cw[w].meta, cw[w].chunk))]
            /\ UNCHANGED <<pool, cTx, ctx>>
       ELSE IF r.opcode = 0 /\ r.payload.len = 1 /\ r.payload.bytes = <<2>>
       THEN /\ cw' = [cw EXCEPT ![w].pc = "pick"]
            /\ CheckAndFinalize(new_id)
       ELSE /\ cw' = [cw EXCEPT ![w].pc = "pick"]
            /\ UNCHANGED <<pool, cTx, ctx>>
    /\ UNCHANGED <<cPc, cConn, cAuth, cStop, cFailed, cSent, cCmds, cStale>>

\* send_chunk_data: the answer to the chunk data
WorkerDataReply(w, r, new_id) ==
    /\ cw[w].pc = "wait_data"
    /\ cw' = [cw EXCEPT ![w].pc = "pick"]
    /\ IF IsFinal(r) THEN CheckAndFinalize(new_id) ELSE UNCHANGED <<pool, cTx, ctx>>
    /\ UNCHANGED <<cPc, cConn, cAuth, cStop, cFailed, cSent, cCmds, cStale>>

\* a read on the worker stream fails: the loop goes on with the next chunk
WorkerStreamError(w) ==
    /\ cw[w].pc \in {"wait_inquiry", "wait_data"}
    /\ cw' = [cw EXCEPT ![w].pc = "pick"]
    /\ UNCHANGED <<pool, cPc, cConn, cAuth, cStop, cFailed, cTx, cSent, ctx, cCmds, cStale>>

\* ---- quic/client.rs, the keep-alive tasks of connect_and_run --------------

VARIABLES
    now,             \* the time, in ticks
    in_flight_pings, \* the map of the pinger: a set of <<message id, sent_at>>
    pingAt,          \* the time at which the sleep of the pinger ends
    scanAt,          \* the time at which the sleep of the watcher ends
    pingerPc,        \* "run" or "aborted"
    watcherPc,       \* "run", "done" (it has left its loop) or "aborted"
    kaClose          \* what the watcher has closed the connection with

kaVars == <<now, in_flight_pings, pingAt, scanAt, pingerPc, watcherPc, kaClose>>

\* the ticks of one sleep of the watcher (100 ms)
TicksPerScan == 2

\* the time the model runs to
MaxTime == 50

\* Duration::from_millis(100), from_millis(500) and from_secs(1), in ticks
WatchTicks == TicksPerScan

TimeoutTicks == 5 * TicksPerScan

PingTicks == 10 * TicksPerScan

\* sent_at.elapsed() > Duration::from_millis(500), had the test not been strict
TimedOutAtLimit(e, t) == t - e[2] >= TimeoutTicks

\* sent_at.elapsed() > Duration::from_millis(500)
TimedOut(e, t) == t - e[2] > TimeoutTicks

KaInit ==
    /\ now = 0
    /\ in_flight_pings = {}
    /\ pingAt = PingTicks
    /\ scanAt = WatchTicks
    /\ pingerPc = "run"
    /\ watcherPc = "run"
    /\ kaClose = NotClosed

\* the keep-alive tasks of a connection that has none
KaIdle ==
    /\ now = 0
    /\ in_flight_pings = {}
    /\ pingAt = 0
    /\ scanAt = 0
    /\ pingerPc = "aborted"
    /\ watcherPc = "aborted"
    /\ kaClose = NotClosed

\* time passes; the sleep of the watcher ends when it is due
Tick ==
    /\ now < MaxTime
    /\ watcherPc = "run" => now < scanAt
    /\ now' = now + 1
    /\ UNCHANGED <<pool, in_flight_pings, pingAt, scanAt, pingerPc, watcherPc, kaClose>>

\* one round of the pinger, behind its sleep of 1 s
PingerRound(new_id) ==
    /\ pingerPc = "run"
    /\ now >= pingAt
    /\ pingAt' = now + PingTicks
    /\ IF new_id = NoId
       THEN UNCHANGED <<pool, in_flight_pings>>
       ELSE /\ pool' = pool \cup {new_id}
            /\ in_flight_pings' = {e \in in_flight_pings : e[1] # new_id} \cup {<<new_id, now>>}
    /\ UNCHANGED <<now, scanAt, pingerPc, watcherPc, kaClose>>

\* one round of the watcher, behind its sleep of 100 ms
WatcherRound ==
    /\ watcherPc = "run"
    /\ now = scanAt
    /\ IF \E e \in in_flight_pings : TimedOut(e, now)
       THEN /\ kaClose' = Closed(1, "PONG timeout")
            /\ in_flight_pings' = {}
            /\ watcherPc' = "done"
            /\ UNCHANGED scanAt
       ELSE /\ scanAt' = now + WatchTicks
            /\ UNCHANGED <<in_flight_pings, watcherPc, kaClose>>
    /\ UNCHANGED <<pool, now, pingAt, pingerPc>>

\* handle_pong_response for the PONG of a PING that has been sent
PongResponse(id) ==
    /\ pingerPc = "run"
    /\ ~kaClose.closed
    /\ \E e \in in_flight_pings : e[1] = id
    /\ in_flight_pings' = {e \in in_flight_pings : e[1] # id}
    /\ pool' = pool \ {id}
    /\ UNCHANGED <<now, pingAt, scanAt, pingerPc, watcherPc, kaClose>>

\* the main loop has ended: pinger_handle.abort(), watcher_handle.abort()
KaAbort ==
    /\ pingerPc = "run"
    /\ pingerPc' = "aborted"
    /\ watcherPc' = "aborted"
    /\ UNCHANGED <<pool, now, in_flight_pings, pingAt, scanAt, kaClose>>

\* ---- wsm/header.rs, the 8 bytes of a header -------------------------------

VARIABLES
    hdr,     \* the header that is encoded
    wire,    \* to_bytes of it, <<>> before
    decoded  \* from_bytes of the bytes, a sequence of at most one header

hdVars == <<hdr, wire, decoded>>

\* a u32 is held as its two 16-bit halves <<high, low>>
U16_MAX == 65535

U32(high, low) == <<high, low>>

U32_MAX == U32(U16_MAX, U16_MAX)

\* the values of a u8 field and of payload_len that the headers are drawn from
FieldValues == {0, 1, 255}

LenValues ==
    {U32(0, 0), U32(0, 1), U32(0, 255), U32(0, 256), U32(0, U16_MAX), U32(1, 0),
     U32(256, 0), U32(4660, 22136), U32_MAX}

WsmHeader(opcode, message_id, payload_type, reserved, payload_len) ==
    [opcode |-> opcode, message_id |-> message_id, payload_type |-> payload_type,
     reserved |-> reserved, payload_len |-> payload_len]

Headers ==
    {WsmHeader(o, i, t, r, l) : o \in {1, 255}, i \in FieldValues, t \in {1, 3},
                                r \in FieldValues, l \in LenValues}

\* u32::to_be_bytes
ToBeBytes(n) == <<n[1] \div 256, n[1] % 256, n[2] \div 256, n[2] % 256>>

\* u32::to_le_bytes
ToLeBytes(n) == <<n[2] % 256, n[2] \div 256, n[1] % 256, n[1] \div 256>>

\* u32::from_le_bytes
FromLeBytes(b) == U32(b[3] + b[4] * 256, b[1] + b[2] * 256)

\* to_bytes, had the length been written big-endian
ToBytesBigEndian(h) ==
    <<h.opcode, h.message_id, h.payload_type, h.reserved>> \o ToBeBytes(h.payload_len)

ToBytes(h) ==
    <<h.opcode, h.message_id, h.payload_type, h.reserved>> \o ToLeBytes(h.payload_len)

FromBytes(buf) ==
    WsmHeader(buf[1], buf[2], buf[3], buf[4], FromLeBytes(SubSeq(buf, 5, 8)))

HeaderInit ==
    /\ hdr \in Headers
    /\ wire = <<>>
    /\ decoded = <<>>

HeaderIdle ==
    /\ hdr = WsmHeader(0, 0, 0, 0, U32(0, 0))
    /\ wire = <<>>
    /\ decoded = <<>>

Encode ==
    /\ wire = <<>>
    /\ wire' = ToBytes(hdr)
    /\ UNCHANGED <<hdr, decoded>>

Decode ==
    /\ Len(wire) = 8
    /\ decoded = <<>>
    /\ decoded' = <<FromBytes(wire)>>
    /\ UNCHANGED <<hdr, wire>>

\* ---- rfs/upload.rs, resolve_and_validate_path ------------------------------

VARIABLES
    target_dir,  \* the virtual path of a request, a sequence of characters
    resolved     \* what resolve_and_validate_path returns for it, <<>> before

pathVars == <<target_dir, resolved>>

\* the longest virtual path of the model, in characters
MaxPathLen == 6

PathChars == {"/", ".", "a", "b"}

TargetDirs == SeqsUpTo(PathChars, MaxPathLen)

\* cfg.rfs: dev_name, and bind_path as the names below the root
Volumes == {[dev_name |-> <<"a">>, bind_path |-> <<<<"s">>, <<"v">>>>]}

\* the pieces of a path between its separators, the empty ones too
RECURSIVE Segments(_)
Segments(str) ==
    IF str = <<>> THEN <<<<>>>>
    ELSE LET rest == Segments(Tail(str))
         IN  IF Head(str) = "/" THEN <<<<>>>> \o rest
             ELSE <<<<Head(str)>> \o Head(rest)>> \o Tail(rest)

\* a Component, had every piece been taken for a normal name
ComponentOfAnyName(seg) == [kind |-> "Normal", name |-> seg]

\* std::path::Component of a piece that is not empty
ComponentOf(seg) ==
    IF seg = <<".">> THEN [kind |-> "CurDir", name |-> seg]
    ELSE IF seg = <<".", ".">> THEN [kind |-> "ParentDir", name |-> seg]
    ELSE [kind |-> "Normal", name |-> seg]

\* Path::components on Unix: the root, then the pieces; empty pieces are
\* skipped, and so is "." anywhere but at the head of a relative path
Components(str) ==
    LET segs == Segments(str)
        rooted == str # <<>> /\ Head(str) = "/"
        kept == {i \in 1 .. Len(segs) :
                    /\ segs[i] # <<>>
                    /\ segs[i] = <<".">> => (i = 1 /\ ~rooted)}
        RECURSIVE From(_)
        From(i) == IF i > Len(segs) THEN <<>>
                   ELSE (IF i \in kept THEN <<ComponentOf(segs[i])>> ELSE <<>>) \o From(i + 1)
    IN  (IF rooted THEN <<[kind |-> "RootDir", name |-> <<"/">>]>> ELSE <<>>) \o From(1)

Err == [ok |-> FALSE, path |-> <<>>]

Ok(path) == [ok |-> TRUE, path |-> path]

\* the result is the root followed by names: PathBuf::from(bind_path) and a
\* push for each later component
ResolveAndValidatePath(dir) ==
    LET c == Components(dir)
    IN  IF c = <<>> \/ c[1].kind # "RootDir" THEN Err
        ELSE IF Len(c) < 2 THEN Err
        ELSE IF c[2].kind # "Normal" THEN Err
        ELSE IF ~\E v \in Volumes : v.dev_name = c[2].name THEN Err
        ELSE IF \E i \in 3 .. Len(c) : c[i].kind # "Normal" THEN Err
        ELSE LET v == CHOOSE v \in Volumes : v.dev_name = c[2].name
             IN  Ok(v.bind_path \o [i \in 1 .. (Len(c) - 2) |-> c[i + 2].name])

PathInit ==
    /\ target_dir \in TargetDirs
    /\ resolved = <<>>

PathIdle ==
    /\ target_dir = <<>>
    /\ resolved = <<>>

Resolve ==
    /\ resolved = <<>>
    /\ resolved' = <<ResolveAndValidatePath(target_dir)>>
    /\ UNCHANGED target_dir

\* ---- quic/service.rs, the reads of the control stream and their timeout -----

VARIABLES
    readPc,     \* what the server waits for: "header", "payload", or "closed"
    silentFor,  \* the seconds since the client last wrote to the control stream
    wdClose     \* what the server has closed the connection with

wdVars == <<readPc, silentFor, wdClose>>

\* Duration::from_secs(15)
READ_TIMEOUT == 15

\* the seconds of silence the model counts
MaxSilence == 45

WdInit ==
    /\ readPc = "header"
    /\ silentFor = 0
    /\ wdClose = NotClosed

WdIdle ==
    /\ readPc = "closed"
    /\ silentFor = 0
    /\ wdClose = NotClosed

\* a second passes and the client writes nothing; the timer of a read that
\* has one expires when it is due
SecondPasses ==
    /\ readPc # "closed"
    /\ silentFor < MaxSilence
    /\ readPc = "header" => silentFor < READ_TIMEOUT
    /\ silentFor' = silentFor + 1
    /\ UNCHANGED <<readPc, wdClose>>

\* Ok(Ok(())): the 8 bytes of an AuthRequest header are there; the handler
\* goes on to read_exact the payload_len bytes it announces
HeaderArrives(payload_len) ==
    /\ readPc = "header"
    /\ silentFor' = 0
    /\ readPc' = IF payload_len > 0 THEN "payload" ELSE "header"
    /\ UNCHANGED wdClose

\* recv.read_exact(&mut token_buf) returns
PayloadArrives ==
    /\ readPc = "payload"
    /\ silentFor' = 0
    /\ readPc' = "header"
    /\ UNCHANGED wdClose

\* Err(_) of time::timeout around the read of the header
ReadTimeout ==
    /\ readPc = "header"
    /\ silentFor >= READ_TIMEOUT
    /\ wdClose' = Closed(0, "keep-alive timeout")
    /\ readPc' = "closed"
    /\ UNCHANGED silentFor

\* a read fails: the connection is lost or the peer has closed it
StreamError ==
    /\ readPc \in {"header", "payload"}
    /\ readPc' = "closed"
    /\ UNCHANGED <<silentFor, wdClose>>

\* ---- rfs/worker.rs read_chunk and rfs/verify.rs assemble_and_verify --------

VARIABLES
    file_size,    \* the size of the local file
    chunk_files,  \* .tmp: <<chunk id, content>> of the chunk files, in the order they were written
    final_file    \* the content of the assembled file, or NotAssembled

ckVars == <<file_size, chunk_files, final_file>>

\* the files of this part have at most MaxFileChunks chunks
MaxFileChunks == 4

\* the sizes around every multiple of CHUNK_SIZE
FileSizes ==
    {0} \cup UNION {{((k - 1) * CHUNK_SIZE) + 1, (k * CHUNK_SIZE) - 1, k * CHUNK_SIZE} :
                      k \in 1 .. MaxFileChunks}

\* the content of a file or of a part of it: the runs <<offset, length>> of
\* bytes of the local file it is made of, in order
Bytes(offset, length) == IF length = 0 THEN <<>> ELSE <<<<offset, length>>>>

\* write_all behind what the file holds: two runs that meet are one run
WriteAll(content, data) ==
    IF data = <<>> THEN content
    ELSE IF content = <<>> THEN data
    ELSE LET last == content[Len(content)]
             first == Head(data)
         IN  IF last[1] + last[2] = first[1]
             THEN SubSeq(content, 1, Len(content) - 1)
                  \o <<<<last[1], last[2] + first[2]>>>> \o Tail(data)
             ELSE content \o data

Min(a, b) == IF a < b THEN a ELSE b

\* a read_chunk that reads a whole chunk whatever is left of the file
ReadChunkFull(chunk_id, total_size) == Bytes(chunk_id * CHUNK_SIZE, CHUNK_SIZE)

\* read_chunk
ReadChunk(chunk_id, total_size) ==
    LET offset == chunk_id * CHUNK_SIZE
        bytes_to_read == Min(CHUNK_SIZE, total_size - offset)
    IN  Bytes(offset, bytes_to_read)

NotAssembled == <<"none">>

\* the chunk file of this id, if it was written
ChunkFile(files, i) == {f \in 1 .. Len(files) : files[f][1] = i}

\* the loop of assemble_and_verify from chunk i on, behind what was written
RECURSIVE AssembleFrom(_, _, _, _)
AssembleFrom(files, i, total_chunks, content) ==
    IF i >= total_chunks THEN content
    ELSE AssembleFrom(files, i + 1, total_chunks,
                      WriteAll(content, files[CHOOSE f \in ChunkFile(files, i) : TRUE][2]))

CkInit ==
    /\ file_size \in FileSizes
    /\ chunk_files = <<>>
    /\ final_file = NotAssembled

CkIdle ==
    /\ file_size = 0
    /\ chunk_files = <<>>
    /\ final_file = NotAssembled

\* a worker has read a chunk and the server has written it to its chunk file
StoreChunk(chunk_id) ==
    /\ final_file = NotAssembled
    /\ ChunkFile(chunk_files, chunk_id) = {}
    /\ chunk_files' = Append(chunk_files, <<chunk_id, ReadChunk(chunk_id, file_size)>>)
    /\ UNCHANGED <<file_size, final_file>>

\* assemble_and_verify up to the hash: every chunk file is there, and the
\* chunk files are written to the target file from 0 on
Assemble ==
    /\ final_file = NotAssembled
    /\ \A i \in 0 .. TotalChunks(file_size) - 1 : ChunkFile(chunk_files, i) # {}
    /\ final_file' = AssembleFrom(chunk_files, 0, TotalChunks(file_size), <<>>)
    /\ UNCHANGED <<file_size, chunk_files>>

\* ---- quic/service.rs associate_and_run_worker ------------------------------

VARIABLES
    awPc,       \* the task of one accepted stream: "header", "payload", "run", "dropped", "ended"
    awWait,     \* the seconds the read of the header has waited
    awHeaderOk, \* read_exact has filled header_buf with the 8 bytes of a header
    awPayload,  \* the payload bytes that follow the header
    awMeta,     \* the metadata handle_worker_stream was called with
    awUploads   \* the keys of ongoing_uploads of the connection

awVars == <<awPc, awWait, awHeaderOk, awPayload, awMeta, awUploads>>

\* Duration::from_secs(2)
HELLO_TIMEOUT == 2

\* the seconds the model lets a stream wait
MaxWait == 3

\* the file hashes of the sessions, as texts: "a", the text U+FFFD, ""
HashTexts == {<<97>>, <<REPLACEMENT_CHARACTER>>, <<>>}

\* the payloads of a Hello: the byte sequences of the AuthRequest payloads
HelloPayloads == SeqsUpTo(AuthBytes, MaxTokenLen)

NoBinding == [some |-> FALSE, file_hash |-> <<>>]

\* String::from_utf8_lossy(&payload).to_string(), the key of the lookup
HelloKey(payload) == Utf8Lossy(payload)

AwInit ==
    /\ awPc = "header"
    /\ awWait = 0
    /\ awHeaderOk = FALSE
    /\ awPayload = <<>>
    /\ awMeta = NoBinding
    /\ awUploads \in SUBSET HashTexts

AwIdle ==
    /\ awPc = "ended"
    /\ awWait = 0
    /\ awHeaderOk = FALSE
    /\ awPayload = <<>>
    /\ awMeta = NoBinding
    /\ awUploads = {}

\* a second passes while the stream carries nothing; the timer of the read
\* of the header expires when it is due
AwSecond ==
    /\ awPc \in {"header", "payload"}
    /\ awWait < MaxWait
    /\ awPc = "header" => awWait < HELLO_TIMEOUT
    /\ awWait' = awWait + 1
    /\ UNCHANGED <<awPc, awHeaderOk, awPayload, awMeta, awUploads>>

\* Err(Elapsed) of time::timeout: "Did not receive Hello in time"
AwTimeout ==
    /\ awPc = "header"
    /\ awWait >= HELLO_TIMEOUT
    /\ awPc' = "dropped"
    /\ UNCHANGED <<awWait, awHeaderOk, awPayload, awMeta, awUploads>>

\* Ok(Ok(())): the header is there; a Hello goes on to its payload
AwHeader(opcode, payload) ==
    /\ awPc = "header"
    /\ awWait < HELLO_TIMEOUT
    /\ awHeaderOk' = TRUE
    /\ IF opcode = 17
       THEN awPc' = "payload" /\ awPayload' = payload
       ELSE awPc' = "dropped" /\ UNCHANGED awPayload
    /\ UNCHANGED <<awWait, awMeta, awUploads>>

\* Ok(Err(_)): the stream ends inside the header.  is_err() is the test of
\* the timer only, so the task goes on with header_buf as it is: zeros
\* behind the bytes that did arrive
AwHeaderCut(first_byte) ==
    /\ awPc = "header"
    /\ awWait < HELLO_TIMEOUT
    /\ IF first_byte = 17
       THEN awPc' = "payload"
       ELSE awPc' = "dropped"
    /\ UNCHANGED <<awWait, awHeaderOk, awPayload, awMeta, awUploads>>

\* the payload is read, without a timer, and looked up in ongoing_uploads
AwPayloadRead ==
    /\ awPc = "payload"
    /\ IF HelloKey(awPayload) \in awUploads
       THEN /\ awPc' = "run"
            /\ awMeta' = [some |-> TRUE, file_hash |-> HelloKey(awPayload)]
       ELSE /\ awPc' = "dropped"
            /\ UNCHANGED awMeta
    /\ UNCHANGED <<awWait, awHeaderOk, awPayload, awUploads>>

\* read_exact of the payload fails
AwPayloadError ==
    /\ awPc = "payload"
    /\ awHeaderOk
    /\ awPayload # <<>>
    /\ awPc' = "dropped"
    /\ UNCHANGED <<awWait, awHeaderOk, awPayload, awMeta, awUploads>>

\* the control stream of the connection registers a session or a finalize
\* task removes one
AwSessions(file_hash) ==
    /\ awPc \in {"header", "payload", "run"}
    /\ awUploads' = IF file_hash \in awUploads THEN awUploads \ {file_hash}
                    ELSE awUploads \cup {file_hash}
    /\ UNCHANGED <<awPc, awWait, awHeaderOk, awPayload, awMeta>>

\* handle_worker_stream leaves its loop
AwStreamEnd ==
    /\ awPc = "run"
    /\ awPc' = "ended"
    /\ UNCHANGED <<awWait, awHeaderOk, awPayload, awMeta, awUploads>>

\* ---- the read loops of the three kinds of stream ----------------------------
\* a stream that delivers every byte its peer wrote: the loop reads 8 bytes,
\* parses them as a header and calls the handler, which takes payload bytes
\* from the same stream

VARIABLES
    rdStream,    \* the loop: "server" (quic/service.rs), "client" (quic/client.rs), "worker" (rfs/worker.rs)
    rdPc,        \* "header": at read_exact(&mut header_buf); "handle": in the dispatcher; "closed"
    rdHeader,    \* WsmHeader::from_bytes(&header_buf)
    rdOwed,      \* payload bytes of the handled frame still in the stream
    rdMisframed, \* a read of header_buf has started inside a payload
    rdAuth,      \* *auth_state.lock().await == AuthState::Authenticated
    rdCtx        \* the state of the upload context of the client, "None" without one

rdVars == <<rdStream, rdPc, rdHeader, rdOwed, rdMisframed, rdAuth, rdCtx>>

\* the opcodes of the protocol and one that no side knows
ReadOpcodes == {0, 1, 2, 3, 4, 5, 6, 7, 8, 9, 16, 119, OPCODE_ERROR_FATAL}

\* payload_len of the headers: none, the one byte of an ACK, two bytes, the
\* header and one byte of a chunk, the 40 bytes of an inquiry
PayloadLens == {0, 1, 2, 9, 40}

ReadHeaders == [opcode : ReadOpcodes, payload_len : PayloadLens, final : BOOLEAN]

ContextStates == {"None", "Initiated", "WorkersOpening", "Streaming", "Finishing"}

NoHeader == [opcode |-> 0, payload_len |-> 0, final |-> FALSE]

RdInit ==
    /\ rdStream \in {"server", "client", "worker"}
    /\ rdPc = "header"
    /\ rdHeader = NoHeader
    /\ rdOwed = 0
    /\ rdMisframed = FALSE
    /\ rdAuth = (rdStream = "worker")
    /\ rdCtx = "None"

RdIdle ==
    /\ rdStream = "worker"
    /\ rdPc = "closed"
    /\ rdHeader = NoHeader
    /\ rdOwed = 0
    /\ rdMisframed = FALSE
    /\ rdAuth = FALSE
    /\ rdCtx = "None"

\* read_exact(&mut header_buf) returns Ok: the next 8 bytes of the stream.
\* They are the header the peer wrote when the payload before them is gone,
\* and else they begin with what is left of that payload
ReadHeader(header) ==
    /\ rdPc = "header"
    /\ rdPc' = "handle"
    /\ rdHeader' = header
    /\ rdMisframed' = (rdMisframed \/ rdOwed > 0)
    /\ rdOwed' = 0
    /\ UNCHANGED <<rdStream, rdAuth, rdCtx>>

\* the payload bytes dispatch_server and its handlers read
ServerConsumed(header) ==
    CASE header.opcode = 3 -> header.payload_len
      [] header.opcode = 6 -> header.payload_len
      [] header.opcode = 7 -> IF header.payload_len # 1 THEN 0 ELSE 1
      [] header.opcode = 16 -> header.payload_len
      [] OTHER -> 0

\* dispatch_server: Break for an unauthenticated client's other opcodes and
\* for a token that does not match
DispatchServer(token_ok) ==
    /\ rdStream = "server"
    /\ rdPc = "handle"
    /\ IF ~rdAuth /\ rdHeader.opcode \notin {1, 3}
       THEN /\ rdPc' = "closed"
            /\ UNCHANGED <<rdOwed, rdAuth>>
       ELSE /\ rdOwed' = rdHeader.payload_len - ServerConsumed(rdHeader)
            /\ IF rdHeader.opcode = 3
               THEN IF token_ok
                    THEN rdAuth' = TRUE /\ rdPc' = "header"
                    ELSE rdPc' = "closed" /\ UNCHANGED rdAuth
               ELSE rdPc' = "header" /\ UNCHANGED rdAuth
    /\ UNCHANGED <<rdStream, rdHeader, rdMisframed, rdCtx>>

\* the payload bytes dispatch_client and its handlers read; matches: there
\* is a context and ctx.message_id == header.message_id
ClientConsumed(header, matches, state, authed) ==
    CASE header.opcode = 0 /\ matches ->
             IF state \in {"Initiated", "Finishing"} /\ header.payload_len = 1 THEN 1 ELSE 0
      [] header.opcode = 0 /\ ~matches ->
             IF ~authed /\ header.final THEN header.payload_len ELSE 0
      [] header.opcode = 4 -> header.payload_len
      [] header.opcode = OPCODE_ERROR_FATAL -> header.payload_len
      [] OTHER -> 0

\* the context after a 0x00 that matches it
ContextAfterReply(header, state) ==
    CASE state = "Initiated" -> IF header.payload_len = 1 THEN "WorkersOpening" ELSE "None"
      [] state = "WorkersOpening" -> "Streaming"
      [] state = "Finishing" -> "None"
      [] OTHER -> state

\* dispatch_client: Break for a fatal error and for a refused authentication
DispatchClient(matches) ==
    /\ rdStream = "client"
    /\ rdPc = "handle"
    /\ matches => rdCtx # "None"
    /\ rdOwed' = rdHeader.payload_len - ClientConsumed(rdHeader, matches, rdCtx, rdAuth)
    /\ rdCtx' = IF rdHeader.opcode = 0 /\ matches THEN ContextAfterReply(rdHeader, rdCtx) ELSE rdCtx
    /\ rdAuth' = (rdAuth \/ (rdHeader.opcode = 0 /\ ~matches /\ rdHeader.final /\ rdHeader.payload_len = 0))
    /\ rdPc' = IF \/ rdHeader.opcode = OPCODE_ERROR_FATAL
                  \/ /\ rdHeader.opcode = 0
                     /\ ~matches
                     /\ ~rdAuth
                     /\ rdHeader.final
                     /\ rdHeader.payload_len # 0
               THEN "closed" ELSE "header"
    /\ UNCHANGED <<rdStream, rdHeader, rdMisframed>>

\* the upload command, the acknowledged workers and the last finished worker
\* move the context of the client between two frames
ContextStep(state) ==
    /\ rdStream = "client"
    /\ rdPc = "header"
    /\ rdAuth
    /\ \/ rdCtx \in {"None", "WorkersOpening"} /\ state = "Initiated"
       \/ rdCtx = "Streaming" /\ state = "Finishing"
    /\ rdCtx' = state
    /\ UNCHANGED <<rdStream, rdPc, rdHeader, rdOwed, rdMisframed, rdAuth>>

\* the payload bytes handle_chunk_inquiry and handle_chunk_data read
WorkerConsumed(header) ==
    CASE header.opcode = 8 -> IF header.payload_len # 40 THEN 0 ELSE 40
      [] header.opcode = 9 -> IF header.payload_len <= 8 THEN 0 ELSE header.payload_len
      [] OTHER -> 0

\* the match of handle_worker_stream: any other opcode breaks the loop
WorkerLoop ==
    /\ rdStream = "worker"
    /\ rdPc = "handle"
    /\ IF rdHeader.opcode \in {8, 9}
       THEN /\ rdOwed' = rdHeader.payload_len - WorkerConsumed(rdHeader)
            /\ rdPc' = "header"
       ELSE /\ rdPc' = "closed"
            /\ UNCHANGED rdOwed
    /\ UNCHANGED <<rdStream, rdHeader, rdMisframed, rdAuth, rdCtx>>

\* the stream ends: read_exact of header_buf returns an error
ReadEnd ==
    /\ rdPc = "header"
    /\ rdPc' = "closed"
    /\ UNCHANGED <<rdStream, rdHeader, rdOwed, rdMisframed, rdAuth, rdCtx>>

\* ---- the sender task of a control stream ------------------------------------
\* the tasks of one connection send whole messages (Vec<u8>) into the mpsc
\* channel; the sender task takes one message at a time and hands it to
\* write_all, which writes it in as many pieces as the stream takes

VARIABLES
    wrSide,    \* "client" (quic/client.rs 112-122) or "server" (quic/service.rs 64-71)
    wrQueue,   \* the messages in the channel
    wrPc,      \* the sender task: "recv" at rx.recv(), "write" inside write_all, "ended"
    wrCur,     \* the bytes of msg_bytes that write_all has not written yet
    wrStream,  \* the bytes written to the control stream
    wrSends    \* the messages sent into the channel so far

wrVars == <<wrSide, wrQueue, wrPc, wrCur, wrStream, wrSends>>

\* the messages the model lets the tasks of one connection send
MaxSends == 3

\* PayloadType::Json, PayloadType::Raw
PAYLOAD_JSON == 1

PAYLOAD_RAW == 3

\* header.to_bytes().to_vec() extended by the payload, with payload.len() as
\* u32 for payload_len
Message(opcode, message_id, payload_type, reserved, payload) ==
    ToBytes(WsmHeader(opcode, message_id, payload_type, reserved, U32(0, Len(payload))))
        \o payload

\* the bytes that stand for a JSON text and for the text of a reason
JsonBytes == <<123, 125>>

ReasonBytes == <<85, 110>>

\* what the tasks of the client send: the AuthRequest, a PING, `rfs list`,
\* the initiation, the worker request, the finalize request
ClientMessages ==
    {Message(3, 1, PAYLOAD_RAW, 0, <<97>>),
     Message(1, 1, PAYLOAD_RAW, 0, <<>>),
     Message(5, 1, PAYLOAD_RAW, 0, <<>>),
     Message(6, 1, PAYLOAD_JSON, 0, JsonBytes),
     Message(7, 1, PAYLOAD_RAW, 0, <<1>>),
     Message(16, 1, PAYLOAD_JSON, 0, JsonBytes)}

\* what the handlers and the finalize tasks of the server send: a PONG, the
\* two answers to an AuthRequest, the fatal error, the volume list, the ACK of
\* an initiation, of a worker request and of a finalize request
ServerMessages ==
    {Message(2, 1, PAYLOAD_RAW, RESERVED_FINAL_FLAG, <<>>),
     Message(0, 1, PAYLOAD_RAW, RESERVED_FINAL_FLAG, <<>>),
     Message(0, 1, PAYLOAD_RAW, RESERVED_FINAL_FLAG, ReasonBytes),
     Message(OPCODE_ERROR_FATAL, 1, PAYLOAD_RAW, RESERVED_FINAL_FLAG, ReasonBytes),
     Message(4, 1, PAYLOAD_JSON, RESERVED_FINAL_FLAG, JsonBytes),
     Message(0, 1, PAYLOAD_RAW, 0, <<2>>),
     Message(0, 1, PAYLOAD_RAW, 0, <<>>),
     Message(0, 1, PAYLOAD_RAW, RESERVED_FINAL_FLAG, <<1>>)}

Messages(side) == IF side = "client" THEN ClientMessages ELSE ServerMessages

\* the payload_len of the header at the front of the bytes, as a number
PayloadLenOf(bytes) ==
    LET n == FromBytes(SubSeq(bytes, 1, 8)).payload_len
    IN  (n[1] * 65536) + n[2]

\* the bytes cut into frames: a header and payload_len bytes, again and
\* again; ok when nothing is left over
RECURSIVE SplitFrames(_)
SplitFrames(bytes) ==
    IF bytes = <<>> THEN [ok |-> TRUE, frames |-> <<>>]
    ELSE IF Len(bytes) < 8 \/ Len(bytes) < 8 + PayloadLenOf(bytes)
    THEN [ok |-> FALSE, frames |-> <<>>]
    ELSE LET n == 8 + PayloadLenOf(bytes)
             rest == SplitFrames(SubSeq(bytes, n + 1, Len(bytes)))
         IN  [ok |-> rest.ok, frames |-> <<SubSeq(bytes, 1, n)>> \o rest.frames]

WrInit ==
    /\ wrSide \in {"client", "server"}
    /\ wrQueue = <<>>
    /\ wrPc = "recv"
    /\ wrCur = <<>>
    /\ wrStream = <<>>
    /\ wrSends = 0

WrIdle ==
    /\ wrSide = "server"
    /\ wrQueue = <<>>
    /\ wrPc = "ended"
    /\ wrCur = <<>>
    /\ wrStream = <<>>
    /\ wrSends = 0

\* tx.send(message).await of any task of the connection
TxSend(message) ==
    /\ wrSends < MaxSends
    /\ Len(wrQueue) < CHANNEL_CAPACITY
    /\ wrQueue' = Append(wrQueue, message)
    /\ wrSends' = wrSends + 1
    /\ UNCHANGED <<wrSide, wrPc, wrCur, wrStream>>

\* Some(msg_bytes) = rx.recv().await
WriterRecv ==
    /\ wrPc = "recv"
    /\ wrQueue # <<>>
    /\ wrCur' = Head(wrQueue)
    /\ wrQueue' = Tail(wrQueue)
    /\ wrPc' = "write"
    /\ UNCHANGED <<wrSide, wrStream, wrSends>>

\* a write that takes the first k bytes and forgets the rest of the message
WriterWriteOnce(k) ==
    /\ wrPc = "write"
    /\ k \in 1 .. Len(wrCur)
    /\ wrStream' = wrStream \o SubSeq(wrCur, 1, k)
    /\ wrCur' = <<>>
    /\ wrPc' = "recv"
    /\ UNCHANGED <<wrSide, wrQueue, wrSends>>

\* control_send.write_all(&msg_bytes): the stream takes the next k bytes;
\* write_all returns when none is left
WriterWrite(k) ==
    /\ wrPc = "write"
    /\ k \in 1 .. Len(wrCur)
    /\ wrStream' = wrStream \o SubSeq(wrCur, 1, k)
    /\ wrCur' = SubSeq(wrCur, k + 1, Len(wrCur))
    /\ wrPc' = IF k = Len(wrCur) THEN "recv" ELSE "write"
    /\ UNCHANGED <<wrSide, wrQueue, wrSends>>

\* write_all returns an error (the loop breaks), or the task is aborted at
\* one of its awaits (sender_task.abort())
WriterEnd ==
    /\ wrPc \in {"recv", "write"}
    /\ wrPc' = "ended"
    /\ UNCHANGED <<wrSide, wrQueue, wrCur, wrStream, wrSends>>

\* ---- the locks of the client and the awaits of the tasks that take them -----
\* every task is the sequence of the awaits of its function: taking a lock
\* whose guard lives across a later await ("lock" ... "unlock"), taking a
\* lock for a piece of code without an await ("use"), tx.send ("send"),
\* rx.recv ("recv"), and a read or write of the network or the disk ("io");
\* the read of the next header and the sleep at the head of a loop, where a
\* task holds nothing, are not steps of their own

VARIABLES
    lkProg,  \* the function each task runs
    lkPc,    \* the await each task is at, an index into the code of its function
    lkHeld,  \* the task that holds each lock, "free" for none
    lkChan   \* the messages in the outgoing queue

lkVars == <<lkProg, lkPc, lkHeld, lkChan>>

\* the capacity the model gives the outgoing queue
QueueSlots == 1

Locks == {"ctx", "queue", "pool", "pings"}

LockTasks == {"dispatcher", "command", "pinger", "watcher", "worker", "writer"}

Op(op, lock) == [op |-> op, lock |-> lock]

Await(op) == [op |-> op, lock |-> "none"]

\* handle_init_ack: context_lock is held from the first line to the last;
\* create_new_msg_id and tx.send are awaited under it
HandleInitAck ==
    <<Op("lock", "ctx"), Op("use", "pool"), Await("send"), Op("unlock", "ctx")>>

\* handle_worker_ack: the chunk queue is filled under context_lock
HandleWorkerAck == <<Op("lock", "ctx"), Op("use", "queue"), Op("unlock", "ctx")>>

\* dispatch_client for a 0x00 that matches the context: the state is copied
\* under the lock and the lock dropped, the handler of the state runs,
\* remove_msg_id follows
DispatchReply(handler) ==
    <<Op("use", "ctx")>> \o handler \o <<Op("use", "pool")>>

\* a reply in Initiated, in WorkersOpening, and in Finishing (or the invalid
\* ACK of Initiated): *context.lock().await = None
DispatchInitAck == DispatchReply(HandleInitAck)

DispatchWorkerAck == DispatchReply(HandleWorkerAck)

DispatchFinish == DispatchReply(<<Op("use", "ctx")>>)

\* dispatch_client for a PONG: handle_pong_response, whose guard of the map
\* ends with the condition of the if, and remove_msg_id
DispatchPong == <<Op("use", "pings"), Op("use", "pool")>>

\* cli/rfs/upload.rs execute: the test of the context, the hashing of the
\* file, create_new_msg_id, and ctx_lock held across tx.send
Execute ==
    <<Op("use", "ctx"), Await("io"), Op("use", "pool"),
      Op("lock", "ctx"), Await("send"), Op("unlock", "ctx")>>

\* the pinger: build_client_ping, the insert into the map, the send
Pinger == <<Op("use", "pool"), Op("use", "pings"), Await("send")>>

\* the watcher: sleep, the scan of the map under its lock
Watcher == <<Await("io"), Op("use", "pings")>>

\* a worker that pops from the queue before it takes the context
RunWorkerTaskQueueFirst ==
    <<Op("lock", "queue"), Op("lock", "ctx"), Op("unlock", "ctx"), Op("unlock", "queue"),
      Await("io"),
      Op("lock", "ctx"), Op("use", "pool"), Await("send"), Op("unlock", "ctx")>>

\* one round of the loop of run_worker_task: the pop under ctx_lock, the
\* read of the chunk and the exchange on the worker stream, and
\* check_and_finalize_upload, which holds the lock of the context across
\* create_new_msg_id and tx.send
RunWorkerTask ==
    <<Op("lock", "ctx"), Op("use", "queue"), Op("unlock", "ctx"),
      Await("io"),
      Op("lock", "ctx"), Op("use", "pool"), Await("send"), Op("unlock", "ctx")>>

\* the sender task: a message is received and given to write_all
SenderTask == <<Await("recv"), Await("io")>>

\* the functions a task can run
Programs(t) ==
    CASE t = "dispatcher" -> {"DispatchInitAck", "DispatchWorkerAck", "DispatchFinish", "DispatchPong"}
      [] t = "command" -> {"Execute"}
      [] t = "pinger" -> {"Pinger"}
      [] t = "watcher" -> {"Watcher"}
      [] t = "worker" -> {"RunWorkerTask"}
      [] OTHER -> {"SenderTask"}

Code(name) ==
    CASE name = "DispatchInitAck" -> DispatchInitAck
      [] name = "DispatchWorkerAck" -> DispatchWorkerAck
      [] name = "DispatchFinish" -> DispatchFinish
      [] name = "DispatchPong" -> DispatchPong
      [] name = "Execute" -> Execute
      [] name = "Pinger" -> Pinger
      [] name = "Watcher" -> Watcher
      [] name = "RunWorkerTask" -> RunWorkerTask
      [] OTHER -> SenderTask

\* the await a task is at
At(t) == Code(lkProg[t])[lkPc[t]]

Holds(t) == {l \in Locks : lkHeld[l] = t}

\* the task is suspended on the network, the disk or the outgoing queue
Suspended(t) ==
    \/ At(t).op = "io"
    \/ At(t).op = "send" /\ lkChan = QueueSlots
    \/ At(t).op = "recv" /\ lkChan = 0

\* the task waits for the lock
WaitsFor(t, l) == At(t).op \in {"lock", "use"} /\ At(t).lock = l

LkInit ==
    /\ lkProg \in [LockTasks -> UNION {Programs(t) : t \in LockTasks}]
    /\ \A t \in LockTasks : lkProg[t] \in Programs(t)
    /\ lkPc = [t \in LockTasks |-> 1]
    /\ lkHeld = [l \in Locks |-> "free"]
    /\ lkChan = 0

LkIdle ==
    /\ lkProg = [t \in LockTasks |-> "SenderTask"]
    /\ lkPc = [t \in LockTasks |-> 1]
    /\ lkHeld = [l \in Locks |-> "free"]
    /\ lkChan = 0

\* the task goes on to its next await; behind the last one the function is
\* called again (the dispatcher with the handler of the next frame)
Proceed(t, next) ==
    IF lkPc[t] < Len(Code(lkProg[t]))
    THEN /\ lkPc' = [lkPc EXCEPT ![t] = lkPc[t] + 1]
         /\ UNCHANGED lkProg
    ELSE /\ lkPc' = [lkPc EXCEPT ![t] = 1]
         /\ lkProg' = [lkProg EXCEPT ![t] = next]

\* lock().await returns the guard
Acquire(t) ==
    /\ At(t).op = "lock"
    /\ lkHeld[At(t).lock] = "free"
    /\ lkHeld' = [lkHeld EXCEPT ![At(t).lock] = t]
    /\ Proceed(t, lkProg[t])
    /\ UNCHANGED lkChan

\* lock().await returns the guard, and the guard is dropped before the next
\* await of the task
Use(t, next) ==
    /\ At(t).op = "use"
    /\ lkHeld[At(t).lock] = "free"
    /\ Proceed(t, next)
    /\ UNCHANGED <<lkHeld, lkChan>>

\* the guard is dropped
Release(t, next) ==
    /\ At(t).op = "unlock"
    /\ lkHeld' = [lkHeld EXCEPT ![At(t).lock] = "free"]
    /\ Proceed(t, next)
    /\ UNCHANGED lkChan

\* tx.send(message).await returns: the queue had room
Send(t, next) ==
    /\ At(t).op = "send"
    /\ lkChan < QueueSlots
    /\ lkChan' = lkChan + 1
    /\ Proceed(t, next)
    /\ UNCHANGED lkHeld

\* rx.recv().await returns a message
Recv(t) ==
    /\ At(t).op = "recv"
    /\ lkChan > 0
    /\ lkChan' = lkChan - 1
    /\ Proceed(t, lkProg[t])
    /\ UNCHANGED lkHeld

\* the read, the write or the sleep returns
Io(t) ==
    /\ At(t).op = "io"
    /\ Proceed(t, lkProg[t])
    /\ UNCHANGED <<lkHeld, lkChan>>

\* ---- rfs/upload.rs calculate_workers over the whole of u64 ------------------
\* a u64 does not fit the integers of the checker: a file size is held as
\* (hi * LIMB + lo) * CHUNK_SIZE + rest, with hi below 2^15, lo below 2^30
\* and rest below CHUNK_SIZE = 2^19

VARIABLES
    nwSize,     \* the file_size calculate_workers is called with
    nwPc,       \* "call" before the call, "returned" after it, "off"
    nwWorkers   \* what calculate_workers returned

nwVars == <<nwSize, nwPc, nwWorkers>>

LIMB == 1024 * 1024 * 1024

FileSize(hi, lo, rest) == [hi |-> hi, lo |-> lo, rest |-> rest]

\* the file sizes the calls of the model are made with
SizeHis == {0, 1, 15, 16, 17, 1023, 32767}

SizeLos == {0, 1, 2, 31, 32, 33, 255, 256, 257, 288, 512, LIMB - 1}

SizeRests == {0, 1, 1023, 1024, 1025, 3072, CHUNK_SIZE - 1}

U64Sizes == {FileSize(hi, lo, rest) : hi \in SizeHis, lo \in SizeLos, rest \in SizeRests}

RECURSIVE Pow2(_)
Pow2(k) == IF k = 0 THEN 1 ELSE 2 * Pow2(k - 1)

\* the number of binary digits of n
RECURSIVE BitLen(_)
BitLen(n) == IF n = 0 THEN 0 ELSE 1 + BitLen(n \div 2)

\* the carries of a size whose rest has reached CHUNK_SIZE
Carry(size) ==
    IF size.rest < CHUNK_SIZE THEN size
    ELSE IF size.lo + 1 < LIMB THEN FileSize(size.hi, size.lo + 1, 0)
    ELSE FileSize(size.hi + 1, 0, 0)

\* `file_size as f64`: the nearest value of 53 significant binary digits,
\* a tie going to the even one.  A size below 2^53 (hi below 16) is kept.
AsF64(size) ==
    LET k == IF size.hi < 16 THEN 0 ELSE BitLen(size.hi) - 4
        unit == Pow2(k)
        q == size.rest \div unit
        rem == size.rest % unit
        up == k > 0 /\ (2 * rem > unit \/ (2 * rem = unit /\ q % 2 = 1))
    IN  Carry(FileSize(size.hi, size.lo, (IF up THEN q + 1 ELSE q) * unit))

\* `(f / CHUNK_SIZE as f64).ceil()`: the division by 2^19 is exact, its
\* quotient has the whole part hi * LIMB + lo and the fraction rest / 2^19
CeilOfQuotient(f) ==
    IF f.rest = 0 THEN FileSize(f.hi, f.lo, 0)
    ELSE Carry(FileSize(f.hi, f.lo, CHUNK_SIZE))

\* an `as u8` that keeps the low eight binary digits
AsU8Wrapping(f) == f.lo % (U8_MAX + 1)

\* `as u8` of a float: the value if it fits, else the nearest u8
AsU8(f) == IF f.hi > 0 \/ f.lo > U8_MAX THEN U8_MAX ELSE f.lo

\* calculate_workers of a u64
CalculateWorkersU64(size) ==
    IF size = FileSize(0, 0, 0) THEN 1
    ELSE LET workers == AsU8(CeilOfQuotient(AsF64(size)))
             atLeast == IF workers < 1 THEN 1 ELSE workers
         IN  IF atLeast > MAX_WORKERS THEN MAX_WORKERS ELSE atLeast

NwInit ==
    /\ nwSize \in U64Sizes
    /\ nwPc = "call"
    /\ nwWorkers = 0

NwIdle ==
    /\ nwSize = FileSize(0, 0, 0)
    /\ nwPc = "off"
    /\ nwWorkers = 0

\* the call of calculate_workers
CallCalculateWorkers ==
    /\ nwPc = "call"
    /\ nwPc' = "returned"
    /\ nwWorkers' = CalculateWorkersU64(nwSize)
    /\ UNCHANGED nwSize

\* ---- the paths the server builds from the metadata of an upload -------------
\* a path is the sequence of its characters, as a PathBuf is

VARIABLES
    metadata,   \* target_dir and file_name of the UploadMetadata of a client
    spPc,       \* how far the upload is: "init", "streaming", "finalize", "done", "off"
    touched     \* the paths the server has created, written or removed

spVars == <<metadata, spPc, touched>>

\* the longest file name of the model, in characters
MaxNameLen == 3

FileNames == SeqsUpTo(PathChars, MaxNameLen)

\* the target_dir values of the model: the volume, a directory in it, a
\* directory above it, an unknown volume and a relative path
ServedDirs ==
    {<<"/", "a">>, <<"/", "a", "/", "b">>, <<"/", "a", "/", ".", ".">>, <<"/", "b">>, <<"a">>}

\* a PathBuf of names below the root, as PathBuf::from and push build it
RECURSIVE PathString(_)
PathString(names) ==
    IF names = <<>> THEN <<>> ELSE <<"/">> \o Head(names) \o PathString(Tail(names))

\* Path::join: an absolute name replaces the path; else the name is
\* appended, behind a separator if the path does not end in one
Join(base, name) ==
    IF name # <<>> /\ Head(name) = "/" THEN name
    ELSE IF base = <<>> \/ base[Len(base)] = "/" THEN base \o name
    ELSE base \o <<"/">> \o name

\* format!("{}.lock", file_name) and its like
WithSuffix(name, suffix) == name \o suffix

DotLock == <<".", "l", "o", "c", "k">>

DotHash == <<".", "h", "a", "s", "h">>

DotTmp == <<".", "t", "m", "p">>

\* format!("chunk_{}", 0)
ChunkName == <<"c", "h", "u", "n", "k", "_", "0">>

\* the names the operating system reaches by a path: ".." leaves the
\* directory it is in, and the parent of the root is the root
Lands(path) ==
    LET c == Components(path)
        RECURSIVE Walk(_, _)
        Walk(i, at) ==
            IF i > Len(c) THEN at
            ELSE IF c[i].kind = "RootDir" THEN Walk(i + 1, <<>>)
            ELSE IF c[i].kind = "CurDir" THEN Walk(i + 1, at)
            ELSE IF c[i].kind = "ParentDir"
            THEN Walk(i + 1, IF at = <<>> THEN at ELSE SubSeq(at, 1, Len(at) - 1))
            ELSE Walk(i + 1, Append(at, c[i].name))
    IN  Walk(1, <<>>)

\* the path is absolute and what it reaches is the bind_path of a volume or
\* lies below it
UnderVolume(path) ==
    /\ path # <<>> /\ Head(path) = "/"
    /\ \E v \in Volumes :
          /\ Len(Lands(path)) >= Len(v.bind_path)
          /\ SubSeq(Lands(path), 1, Len(v.bind_path)) = v.bind_path

SpInit ==
    /\ metadata \in [target_dir : ServedDirs, file_name : FileNames]
    /\ spPc = "init"
    /\ touched = {}

SpIdle ==
    /\ metadata = [target_dir |-> <<>>, file_name |-> <<>>]
    /\ spPc = "off"
    /\ touched = {}

\* prepare_upload_directory for a file that is not there: the stale lock,
\* hash and .tmp are removed or the new ones made, under the target directory
PreparePaths ==
    /\ spPc = "init"
    /\ LET r == ResolveAndValidatePath(metadata.target_dir)
           final_path == PathString(r.path)
       IN  IF r.ok
           THEN /\ touched' = touched \cup
                       {final_path,
                        Join(final_path, WithSuffix(metadata.file_name, DotLock)),
                        Join(final_path, WithSuffix(metadata.file_name, DotHash)),
                        Join(final_path, WithSuffix(metadata.file_name, DotTmp))}
                /\ spPc' = "streaming"
           ELSE /\ spPc' = "done"
                /\ UNCHANGED touched
    /\ UNCHANGED metadata

\* handle_chunk_data: the chunk is written into the .tmp directory
ChunkPaths ==
    /\ spPc = "streaming"
    /\ LET base_path == PathString(ResolveAndValidatePath(metadata.target_dir).path)
           tmp_dir_path == Join(base_path, WithSuffix(metadata.file_name, DotTmp))
       IN  touched' = touched \cup {Join(tmp_dir_path, ChunkName)}
    /\ spPc' = "finalize"
    /\ UNCHANGED metadata

\* assemble_and_verify: the final file is created, and lock, hash and .tmp
\* are removed
AssemblePaths ==
    /\ spPc = "finalize"
    /\ LET final_path == PathString(ResolveAndValidatePath(metadata.target_dir).path)
       IN  touched' = touched \cup
               {Join(final_path, metadata.file_name),
                Join(final_path, WithSuffix(metadata.file_name, DotLock)),
                Join(final_path, WithSuffix(metadata.file_name, DotHash)),
                Join(final_path, WithSuffix(metadata.file_name, DotTmp))}
    /\ spPc' = "done"
    /\ UNCHANGED metadata

\* ---- what the pool, the server and the client leave alone -------------------

firstAux == <<kaVars, hdVars, pathVars, wdVars>>

FirstAuxIdle == KaIdle /\ HeaderIdle /\ PathIdle /\ WdIdle

restVars == <<ckVars, awVars, rdVars, wrVars, lkVars, nwVars, spVars>>

RestIdle == CkIdle /\ AwIdle /\ RdIdle /\ WrIdle /\ LkIdle /\ NwIdle /\ SpIdle

auxVars == <<firstAux, restVars>>

AuxIdle == FirstAuxIdle /\ RestIdle

\* ---- the client against a server ------------------------------------------

ClientInit ==
    /\ cPc = "top"
    /\ cConn = 0
    /\ cAuth = "Unauthenticated"
    /\ cStop = FALSE
    /\ cFailed = FALSE
    /\ cTx = <<>>
    /\ cSent = {}
    /\ ctx = NoCtx
    /\ cw = [w \in Workers |-> OffWorker]
    /\ cCmds = 0
    /\ cStale = 0

\* what no client step touches
notClient == <<mode, poolLock, tpc, targ, tret, live, serverVars, fsVars, sw, ghostVars, auxVars>>

ClientNext ==
    \/ mode = "client" /\ \E new_id \in AllocChoices(pool), hash_ok \in BOOLEAN :
          Len(cTx) < MaxQueue /\ RfsUpload(MetaOf(UploadFile), new_id, hash_ok)
          /\ UNCHANGED notClient
    \/ mode = "client" /\ CmdDrop /\ UNCHANGED notClient
    \/ mode = "client" /\ \E new_id \in AllocChoices(pool) :
          Len(cTx) < MaxQueue /\ ClientConnect(new_id) /\ UNCHANGED notClient
    \/ mode = "client" /\ \E drain \in BOOLEAN : ClientConnectError(drain) /\ UNCHANGED notClient
    \/ mode = "client" /\ ClientSenderTake /\ UNCHANGED notClient
    \/ mode = "client" /\ \E fr \in ServerFrames(cSent), drain \in BOOLEAN :
          \E new_id \in (IF NeedsId(fr) THEN AllocChoices(pool) ELSE {NoId}) :
             Len(cTx) < MaxQueue /\ ClientRecv(fr, new_id, drain) /\ UNCHANGED notClient
    \/ mode = "client" /\ \E drain \in BOOLEAN : ClientReadError(drain) /\ UNCHANGED notClient
    \/ mode = "client" /\ \E w \in Workers : WorkerStart(w) /\ UNCHANGED notClient
    \/ mode = "client" /\ \E w \in Workers, read_ok \in BOOLEAN : WorkerPick(w, read_ok) /\ UNCHANGED notClient
    \/ mode = "client" /\ \E w \in Workers, r \in WorkerReplies, new_id \in FinalizeIds :
          Len(cTx) < MaxQueue /\ WorkerInquiryReply(w, r, new_id) /\ UNCHANGED notClient
    \/ mode = "client" /\ \E w \in Workers, r \in WorkerReplies, new_id \in FinalizeIds :
          Len(cTx) < MaxQueue /\ WorkerDataReply(w, r, new_id) /\ UNCHANGED notClient
    \/ mode = "client" /\ \E w \in Workers : WorkerStreamError(w) /\ UNCHANGED notClient

(***************************************************************************)
(* Part 5.  The specifications.                                            *)
(***************************************************************************)

\* what no server step touches
notServer == <<mode, poolVars, clientVars, auxVars>>

\* the server of SpecAuth: every step of the control stream of a connection
AuthServerNext ==
    \/ mode = "server" /\ ServerRecv(AuthClientFrames) /\ UNCHANGED notServer
    \/ mode = "server" /\ ServerClose /\ UNCHANGED notServer
    \/ mode = "server" /\ ServerTimeout /\ UNCHANGED notServer
    \/ mode = "server" /\ ServerReadError /\ UNCHANGED notServer
    \/ mode = "server" /\ SenderTake /\ UNCHANGED notServer
    \/ mode = "server" /\ ServerAccept /\ UNCHANGED notServer

\* what an authenticating client of uploads can write to the control stream
UploadClientFrames ==
    {NewFrame(3, 0, BytesPayload(Utf8Encode(sToken)))}
    \cup {NewFrame(op, 0, JsonPayload(m)) : op \in {6, 16}, m \in UploadMetas}

\* the server of SpecUpload: the control stream, the finalize tasks and the
\* worker stream
UploadServerNext ==
    \/ mode = "server" /\ ServerRecv(UploadClientFrames) /\ UNCHANGED notServer
    \/ mode = "server" /\ ServerClose /\ UNCHANGED notServer
    \/ mode = "server" /\ ServerReadError /\ UNCHANGED notServer
    \/ mode = "server" /\ SenderTake /\ UNCHANGED notServer
    \/ mode = "server" /\ ServerAccept /\ UNCHANGED notServer
    \/ mode = "server" /\ \E k \in FinTasks : FinCheck(k) /\ UNCHANGED notServer
    \/ mode = "server" /\ \E k \in FinTasks : FinCreate(k) /\ UNCHANGED notServer
    \/ mode = "server" /\ \E k \in FinTasks : FinAppend(k) /\ UNCHANGED notServer
    \/ mode = "server" /\ \E k \in FinTasks : FinVerify(k) /\ UNCHANGED notServer
    \/ mode = "server" /\ \E k \in FinTasks : FinCleanup(k) /\ UNCHANGED notServer
    \/ mode = "server" /\ \E k \in FinTasks :
          /\ TxOpen(fin[k].conn) => Len(sTx) < MaxQueue
          /\ FinReply(k)
          /\ UNCHANGED notServer
    \/ mode = "server" /\ \E wf \in WorkerFrames : AssociateAndRunWorker(wf) /\ UNCHANGED notServer
    \/ mode = "server" /\ \E wf \in WorkerFrames : HandleWorkerStream(wf) /\ UNCHANGED notServer
    \/ mode = "server" /\ WorkerStreamEnd /\ UNCHANGED notServer

vars == <<poolVars, mode, serverVars, fsVars, sw, ghostVars, clientVars, auxVars>>

nonPoolVars == <<mode, serverVars, fsVars, sw, ghostVars, clientVars, auxVars>>

SpecPoolInit ==
    /\ PoolInit
    /\ mode = "client"
    /\ ServerInit
    /\ sToken = <<97>>
    /\ ClientInit
    /\ AuxIdle

SpecPoolNext ==
    \/ \E t \in Tasks : CallCreate(t) /\ UNCHANGED nonPoolVars
    \/ \E t \in Tasks : CreateLock(t) /\ UNCHANGED nonPoolVars
    \/ \E t \in Tasks : CreateCheck(t) /\ UNCHANGED nonPoolVars
    \/ \E t \in Tasks, new_id \in U8 : CreateDraw(t, new_id) /\ UNCHANGED nonPoolVars
    \/ \E t \in Tasks, id \in SmallIds : CallRemove(t, id) /\ UNCHANGED nonPoolVars
    \/ \E t \in Tasks : RemoveLock(t) /\ UNCHANGED nonPoolVars
    \/ \E t \in Tasks : RemoveBody(t) /\ UNCHANGED nonPoolVars

SpecPool == SpecPoolInit /\ [][SpecPoolNext]_vars

SpecUploadInit ==
    /\ mode \in {"server", "client"}
    /\ PoolIdle
    /\ ServerInit
    /\ sToken = <<97>>
    /\ ClientInit
    /\ AuxIdle

SpecUploadNext ==
    \/ UploadServerNext
    \/ ClientNext

SpecUpload == SpecUploadInit /\ [][SpecUploadNext]_vars

SpecAuthInit ==
    /\ mode \in {"server", "client"}
    /\ PoolIdle
    /\ ServerInit
    /\ mode = "client" => sToken = <<97>>
    /\ ClientInit
    /\ AuxIdle

SpecAuthNext ==
    \/ AuthServerNext
    \/ ClientNext

SpecAuth == SpecAuthInit /\ [][SpecAuthNext]_vars

\* the control stream of a server that is sent every request, under every id
ReplyClientFrames ==
    {NewFrame(op, id, NoPayload) : op \in {1, 3, 5, 7}, id \in MsgIds}
    \cup {NewFrame(3, id, BytesPayload(Utf8Encode(sToken))) : id \in MsgIds}
    \cup {NewFrame(op, id, JsonPayload(m)) : op \in {6, 16}, id \in MsgIds, m \in UploadMetas}

\* the server of an upload whose connection was lost: the lock and the hash
\* are there, the chunks are stored or not
SpecReplyInit ==
    /\ mode = "server"
    /\ PoolIdle
    /\ sToken = <<97>>
    /\ sConn = 1
    /\ sAuth = "Unauthenticated"
    /\ sPc = "read"
    /\ sClose = NotClosed
    /\ sTx = <<>>
    /\ sessions = {}
    /\ fin = [k \in FinTasks |-> IdleFin]
    /\ fsFinal = AbsentFile
    /\ fsLock = TRUE
    /\ fsHash = FileOf(MetaOf(UploadFile).file_hash)
    /\ fsTmp \in {EmptyTmp, [exists |-> TRUE, chunks |-> [c \in ChunkIds |-> LocalChunk(MetaOf(UploadFile), c)]]}
    /\ sw = ClosedWorker
    /\ gFinSeen = FALSE
    /\ gLastInit = MetaOf(UploadFile).file_hash
    /\ gSucceeded = FALSE
    /\ ClientInit
    /\ AuxIdle

SpecReplyNext ==
    \/ mode = "server" /\ ServerRecv(ReplyClientFrames) /\ UNCHANGED notServer
    \/ mode = "server" /\ ServerClose /\ UNCHANGED notServer
    \/ mode = "server" /\ ServerTimeout /\ UNCHANGED notServer
    \/ mode = "server" /\ ServerReadError /\ UNCHANGED notServer
    \/ mode = "server" /\ SenderTake /\ UNCHANGED notServer
    \/ mode = "server" /\ ServerAccept /\ UNCHANGED notServer
    \/ mode = "server" /\ \E k \in FinTasks : FinCheck(k) /\ UNCHANGED notServer
    \/ mode = "server" /\ \E k \in FinTasks : FinCreate(k) /\ UNCHANGED notServer
    \/ mode = "server" /\ \E k \in FinTasks : FinAppend(k) /\ UNCHANGED notServer
    \/ mode = "server" /\ \E k \in FinTasks : FinVerify(k) /\ UNCHANGED notServer
    \/ mode = "server" /\ \E k \in FinTasks : FinCleanup(k) /\ UNCHANGED notServer
    \/ mode = "server" /\ \E k \in FinTasks :
          /\ TxOpen(fin[k].conn) => Len(sTx) < MaxQueue
          /\ FinReply(k)
          /\ UNCHANGED notServer

SpecReply == SpecReplyInit /\ [][SpecReplyNext]_vars

\* the client with its console, where every command runs in a task of its
\* own; no worker stream is opened
SpecConsoleInit == SpecAuthInit /\ mode = "client"

SpecConsoleNext ==
    \/ CmdUploadCheck /\ UNCHANGED notClient
    \/ \E new_id \in AllocChoices(pool), hash_ok \in BOOLEAN :
          Len(cTx) < MaxQueue /\ CmdUpload(MetaOf(UploadFile), new_id, hash_ok)
          /\ UNCHANGED notClient
    \/ CmdDrop /\ UNCHANGED notClient
    \/ \E new_id \in AllocChoices(pool) :
          Len(cTx) < MaxQueue /\ ClientConnect(new_id) /\ UNCHANGED notClient
    \/ \E drain \in BOOLEAN : ClientConnectError(drain) /\ UNCHANGED notClient
    \/ ClientSenderTake /\ UNCHANGED notClient
    \/ \E fr \in ServerFrames(cSent), drain \in BOOLEAN :
          \E new_id \in (IF NeedsId(fr) THEN AllocChoices(pool) ELSE {NoId}) :
             Len(cTx) < MaxQueue /\ ClientRecv(fr, new_id, drain) /\ UNCHANGED notClient
    \/ \E drain \in BOOLEAN : ClientReadError(drain) /\ UNCHANGED notClient

SpecConsole == SpecConsoleInit /\ [][SpecConsoleNext]_vars

\* the client of one upload of StreamFile from the arrival of the worker ACK
\* on, with every worker of handle_worker_ack in a task of its own.  The
\* server answers the worker request once.
SpecStreamInit ==
    /\ mode = "client"
    /\ pool = {0}
    /\ poolLock = NoTask
    /\ tpc = [t \in Tasks |-> "idle"]
    /\ targ = [t \in Tasks |-> 0]
    /\ tret = [t \in Tasks |-> RetNothing]
    /\ live = [id \in U8 |-> 0]
    /\ ServerInit
    /\ sToken = <<97>>
    /\ cPc = "main"
    /\ cConn = 1
    /\ cAuth = "Authenticated"
    /\ cStop = FALSE
    /\ cFailed = FALSE
    /\ cTx = <<>>
    /\ cSent = {<<7, 0>>}
    /\ ctx = [NoCtx EXCEPT !.some = TRUE, !.state = "WorkersOpening", !.message_id = 0,
                           !.meta = MetaOf(StreamFile)]
    /\ cw = [w \in Workers |-> OffWorker]
    /\ cCmds = 0
    /\ cStale = 0
    /\ AuxIdle

SpecStreamNext ==
    \/ \E fr \in ServerFrames(cSent), drain \in BOOLEAN :
          /\ fr = WorkerAckFrame(0) => ctx.state = "WorkersOpening"
          /\ ClientRecv(fr, NoId, drain)
          /\ UNCHANGED notClient
    \/ ClientSenderTake /\ UNCHANGED notClient
    \/ \E w \in DOMAIN cw : WorkerStart(w) /\ UNCHANGED notClient
    \/ \E w \in DOMAIN cw, read_ok \in BOOLEAN : WorkerPick(w, read_ok) /\ UNCHANGED notClient
    \/ \E w \in DOMAIN cw, r \in WorkerReplies, new_id \in FinalizeIds :
          Len(cTx) < MaxQueue /\ WorkerInquiryReply(w, r, new_id) /\ UNCHANGED notClient
    \/ \E w \in DOMAIN cw, r \in WorkerReplies, new_id \in FinalizeIds :
          Len(cTx) < MaxQueue /\ WorkerDataReply(w, r, new_id) /\ UNCHANGED notClient
    \/ \E w \in DOMAIN cw : WorkerStreamError(w) /\ UNCHANGED notClient

SpecStream == SpecStreamInit /\ [][SpecStreamNext]_vars

\* the keep-alive tasks of one authenticated connection of the client
SpecKeepaliveInit ==
    /\ mode = "client"
    /\ PoolIdle
    /\ ServerInit
    /\ sToken = <<97>>
    /\ ClientInit
    /\ KaInit
    /\ HeaderIdle
    /\ PathIdle
    /\ WdIdle
    /\ RestIdle

\* what no keep-alive step touches
notKa == <<mode, poolLock, tpc, targ, tret, live, serverVars, fsVars, sw, ghostVars, clientVars, hdVars, pathVars, wdVars, restVars>>

SpecKeepaliveNext ==
    \/ Tick /\ UNCHANGED notKa
    \/ \E new_id \in AllocChoices(pool) : PingerRound(new_id) /\ UNCHANGED notKa
    \/ WatcherRound /\ UNCHANGED notKa
    \/ \E id \in DrawIds : PongResponse(id) /\ UNCHANGED notKa
    \/ KaAbort /\ UNCHANGED notKa

SpecKeepalive == SpecKeepaliveInit /\ [][SpecKeepaliveNext]_vars

\* the headers of the protocol through to_bytes and from_bytes
SpecHeaderInit ==
    /\ mode = "client"
    /\ PoolIdle
    /\ ServerInit
    /\ sToken = <<97>>
    /\ ClientInit
    /\ KaIdle
    /\ HeaderInit
    /\ PathIdle
    /\ WdIdle
    /\ RestIdle

notHeader == <<poolVars, mode, serverVars, fsVars, sw, ghostVars, clientVars, kaVars, pathVars, wdVars, restVars>>

SpecHeaderNext ==
    \/ Encode /\ UNCHANGED notHeader
    \/ Decode /\ UNCHANGED notHeader

SpecHeader == SpecHeaderInit /\ [][SpecHeaderNext]_vars

\* the virtual paths of the requests through resolve_and_validate_path
SpecPathInit ==
    /\ mode = "server"
    /\ PoolIdle
    /\ ServerInit
    /\ sToken = <<97>>
    /\ ClientInit
    /\ KaIdle
    /\ HeaderIdle
    /\ PathInit
    /\ WdIdle
    /\ RestIdle

SpecPathNext ==
    Resolve /\ UNCHANGED <<poolVars, mode, serverVars, fsVars, sw, ghostVars, clientVars, kaVars, hdVars, wdVars, restVars>>

SpecPath == SpecPathInit /\ [][SpecPathNext]_vars

\* the control stream of one connection of the server, by the second
SpecWatchdogInit ==
    /\ mode = "server"
    /\ PoolIdle
    /\ ServerInit
    /\ sToken = <<97>>
    /\ ClientInit
    /\ KaIdle
    /\ HeaderIdle
    /\ PathIdle
    /\ WdInit
    /\ RestIdle

notWd == <<poolVars, mode, serverVars, fsVars, sw, ghostVars, clientVars, kaVars, hdVars, pathVars, restVars>>

SpecWatchdogNext ==
    \/ SecondPasses /\ UNCHANGED notWd
    \/ \E payload_len \in {0, 1} : HeaderArrives(payload_len) /\ UNCHANGED notWd
    \/ PayloadArrives /\ UNCHANGED notWd
    \/ ReadTimeout /\ UNCHANGED notWd
    \/ StreamError /\ UNCHANGED notWd

SpecWatchdog == SpecWatchdogInit /\ [][SpecWatchdogNext]_vars

(***************************************************************************)
(* The claims.                                                             *)
(***************************************************************************)

\* another content for the target file of the model
OtherFile == [i \in 1 .. MaxChunks |-> 2]

PrepareMetas == {MetaOf(UploadFile), MetaOf(OtherFile)}

\* the requests of a client that uploads one content and then the other
PrepareClientFrames ==
    {NewFrame(3, 0, BytesPayload(Utf8Encode(sToken)))}
    \cup {NewFrame(op, 0, JsonPayload(m)) : op \in {6, 16}, m \in PrepareMetas}

\* the server of one connection with uploads of two contents to one target
SpecPrepareInit == SpecUploadInit /\ mode = "server"

SpecPrepareNext ==
    \/ ServerRecv(PrepareClientFrames) /\ UNCHANGED notServer
    \/ SenderTake /\ UNCHANGED notServer
    \/ \E k \in FinTasks : FinCheck(k) /\ UNCHANGED notServer
    \/ \E k \in FinTasks : FinCreate(k) /\ UNCHANGED notServer
    \/ \E k \in FinTasks : FinAppend(k) /\ UNCHANGED notServer
    \/ \E k \in FinTasks : FinVerify(k) /\ UNCHANGED notServer
    \/ \E k \in FinTasks : FinCleanup(k) /\ UNCHANGED notServer
    \/ \E k \in FinTasks :
          /\ TxOpen(fin[k].conn) => Len(sTx) < MaxQueue
          /\ FinReply(k)
          /\ UNCHANGED notServer
    \/ \E wf \in WorkerFrames : AssociateAndRunWorker(wf) /\ UNCHANGED notServer
    \/ \E wf \in WorkerFrames : HandleWorkerStream(wf) /\ UNCHANGED notServer
    \/ WorkerStreamEnd /\ UNCHANGED notServer

SpecPrepare == SpecPrepareInit /\ [][SpecPrepareNext]_vars

\* the chunks of a file from the reads of the workers to the assembled file
SpecChunksInit ==
    /\ mode = "server"
    /\ PoolIdle
    /\ ServerInit
    /\ sToken = <<97>>
    /\ ClientInit
    /\ FirstAuxIdle
    /\ CkInit
    /\ AwIdle
    /\ RdIdle
    /\ WrIdle
    /\ LkIdle
    /\ NwIdle
    /\ SpIdle

\* what no step of this part touches
notCk == <<poolVars, mode, serverVars, fsVars, sw, ghostVars, clientVars, firstAux, awVars, rdVars, wrVars, lkVars, nwVars, spVars>>

SpecChunksNext ==
    \/ \E chunk_id \in 0 .. TotalChunks(file_size) - 1 : StoreChunk(chunk_id) /\ UNCHANGED notCk
    \/ Assemble /\ UNCHANGED notCk

SpecChunks == SpecChunksInit /\ [][SpecChunksNext]_vars

\* one stream the worker listener of a connection has accepted
SpecHelloInit ==
    /\ mode = "server"
    /\ PoolIdle
    /\ ServerInit
    /\ sToken = <<97>>
    /\ ClientInit
    /\ FirstAuxIdle
    /\ CkIdle
    /\ AwInit
    /\ RdIdle
    /\ WrIdle
    /\ LkIdle
    /\ NwIdle
    /\ SpIdle

\* what no step of the stream touches
notAw == <<poolVars, mode, serverVars, fsVars, sw, ghostVars, clientVars, firstAux, ckVars, rdVars, wrVars, lkVars, nwVars, spVars>>

SpecHelloNext ==
    \/ AwSecond /\ UNCHANGED notAw
    \/ AwTimeout /\ UNCHANGED notAw
    \/ \E opcode \in {8, 9, 17}, payload \in HelloPayloads :
          AwHeader(opcode, payload) /\ UNCHANGED notAw
    \/ \E first_byte \in {0, 17} : AwHeaderCut(first_byte) /\ UNCHANGED notAw
    \/ AwPayloadRead /\ UNCHANGED notAw
    \/ AwPayloadError /\ UNCHANGED notAw
    \/ \E file_hash \in HashTexts : AwSessions(file_hash) /\ UNCHANGED notAw
    \/ AwStreamEnd /\ UNCHANGED notAw

SpecHello == SpecHelloInit /\ [][SpecHelloNext]_vars

\* one stream and the loop that reads it
SpecFramingInit ==
    /\ mode = "server"
    /\ PoolIdle
    /\ ServerInit
    /\ sToken = <<97>>
    /\ ClientInit
    /\ FirstAuxIdle
    /\ CkIdle
    /\ AwIdle
    /\ RdInit
    /\ WrIdle
    /\ LkIdle
    /\ NwIdle
    /\ SpIdle

\* what no step of the loop touches
notRd == <<poolVars, mode, serverVars, fsVars, sw, ghostVars, clientVars, firstAux, ckVars, awVars, wrVars, lkVars, nwVars, spVars>>

SpecFramingNext ==
    \/ \E header \in ReadHeaders : ReadHeader(header) /\ UNCHANGED notRd
    \/ \E token_ok \in BOOLEAN : DispatchServer(token_ok) /\ UNCHANGED notRd
    \/ \E matches \in BOOLEAN : DispatchClient(matches) /\ UNCHANGED notRd
    \/ \E state \in ContextStates : ContextStep(state) /\ UNCHANGED notRd
    \/ WorkerLoop /\ UNCHANGED notRd
    \/ ReadEnd /\ UNCHANGED notRd

SpecFraming == SpecFramingInit /\ [][SpecFramingNext]_vars

\* the channel, the sender task and the control stream of one connection
SpecWriterInit ==
    /\ mode = "server"
    /\ PoolIdle
    /\ ServerInit
    /\ sToken = <<97>>
    /\ ClientInit
    /\ FirstAuxIdle
    /\ CkIdle
    /\ AwIdle
    /\ RdIdle
    /\ WrInit
    /\ LkIdle
    /\ NwIdle
    /\ SpIdle

\* what no step of the sender task touches
notWr == <<poolVars, mode, serverVars, fsVars, sw, ghostVars, clientVars, firstAux, ckVars, awVars, rdVars, lkVars, nwVars, spVars>>

SpecWriterNext ==
    \/ \E message \in Messages(wrSide) : TxSend(message) /\ UNCHANGED notWr
    \/ WriterRecv /\ UNCHANGED notWr
    \/ \E k \in 1 .. 10 : WriterWrite(k) /\ UNCHANGED notWr
    \/ WriterEnd /\ UNCHANGED notWr

SpecWriter == SpecWriterInit /\ [][SpecWriterNext]_vars

\* the tasks of a connected client and the locks they share
SpecLocksInit ==
    /\ mode = "client"
    /\ PoolIdle
    /\ ServerInit
    /\ sToken = <<97>>
    /\ ClientInit
    /\ FirstAuxIdle
    /\ CkIdle
    /\ AwIdle
    /\ RdIdle
    /\ WrIdle
    /\ LkInit
    /\ NwIdle
    /\ SpIdle

\* what no step of these tasks touches
notLk == <<poolVars, mode, serverVars, fsVars, sw, ghostVars, clientVars, firstAux, ckVars, awVars, rdVars, wrVars, nwVars, spVars>>

SpecLocksNext ==
    \/ \E t \in LockTasks : Acquire(t) /\ UNCHANGED notLk
    \/ \E t \in LockTasks : \E next \in Programs(t) : Use(t, next) /\ UNCHANGED notLk
    \/ \E t \in LockTasks : \E next \in Programs(t) : Release(t, next) /\ UNCHANGED notLk
    \/ \E t \in LockTasks : \E next \in Programs(t) : Send(t, next) /\ UNCHANGED notLk
    \/ \E t \in LockTasks : Recv(t) /\ UNCHANGED notLk
    \/ \E t \in LockTasks : Io(t) /\ UNCHANGED notLk

SpecLocks == SpecLocksInit /\ [][SpecLocksNext]_vars

\* a step of the task that does not wait for the network, the disk or a
\* timer; the writes of the sender task are among them (the writer is
\* draining)
Run(t) ==
    \/ Acquire(t)
    \/ \E next \in Programs(t) : Use(t, next) \/ Release(t, next) \/ Send(t, next)
    \/ Recv(t)
    \/ t = "writer" /\ Io(t)

\* the same tasks under the scheduling of the runtime: a task that can run
\* is polled, and the mutex and the channel serve their waiters in turn, so
\* a task that waits for a lock or for room in the queue is not passed over
\* for ever.  A read, a write or a sleep of a task other than the sender
\* task may never return
SpecLocksFair ==
    /\ SpecLocksInit
    /\ [][SpecLocksNext]_vars
    /\ \A t \in LockTasks : SF_vars(Run(t) /\ UNCHANGED notLk)

\* the authenticated client with a message id pool that is full, or has the
\* one id 1 left: the console commands, the replies of the server and the
\* workers of the upload of UploadFile
SpecSaturatedInit ==
    /\ mode = "client"
    /\ pool \in {U8, U8 \ {1}}
    /\ poolLock = NoTask
    /\ tpc = [t \in Tasks |-> "idle"]
    /\ targ = [t \in Tasks |-> 0]
    /\ tret = [t \in Tasks |-> RetNothing]
    /\ live = [id \in U8 |-> 0]
    /\ ServerInit
    /\ sToken = <<97>>
    /\ cPc = "main"
    /\ cConn = 1
    /\ cAuth = "Authenticated"
    /\ cStop = FALSE
    /\ cFailed = FALSE
    /\ cTx = <<>>
    /\ \/ ctx = NoCtx /\ cSent = {}
       \/ /\ ctx = [NoCtx EXCEPT !.some = TRUE, !.state = "Initiated", !.message_id = 0,
                                 !.meta = MetaOf(UploadFile)]
          /\ cSent = {<<6, 0>>}
    /\ cw = [w \in Workers |-> OffWorker]
    /\ cCmds = 0
    /\ cStale = 0
    /\ AuxIdle

SpecSaturatedNext ==
    \/ \E new_id \in AllocChoices(pool) :
          Len(cTx) < MaxQueue /\ CmdPing(new_id) /\ UNCHANGED notClient
    \/ \E new_id \in AllocChoices(pool) :
          Len(cTx) < MaxQueue /\ CmdList(new_id) /\ UNCHANGED notClient
    \/ \E new_id \in AllocChoices(pool), hash_ok \in BOOLEAN :
          Len(cTx) < MaxQueue /\ RfsUpload(MetaOf(UploadFile), new_id, hash_ok)
          /\ UNCHANGED notClient
    \/ ClientSenderTake /\ UNCHANGED notClient
    \/ \E fr \in ServerFrames(cSent), drain \in BOOLEAN :
          \E new_id \in (IF NeedsId(fr) THEN AllocChoices(pool) ELSE {NoId}) :
             Len(cTx) < MaxQueue /\ ClientRecv(fr, new_id, drain) /\ UNCHANGED notClient
    \/ \E w \in DOMAIN cw : WorkerStart(w) /\ UNCHANGED notClient
    \/ \E w \in DOMAIN cw, read_ok \in BOOLEAN : WorkerPick(w, read_ok) /\ UNCHANGED notClient
    \/ \E w \in DOMAIN cw, r \in WorkerReplies, new_id \in FinalizeIds :
          Len(cTx) < MaxQueue /\ WorkerInquiryReply(w, r, new_id) /\ UNCHANGED notClient
    \/ \E w \in DOMAIN cw, r \in WorkerReplies, new_id \in FinalizeIds :
          Len(cTx) < MaxQueue /\ WorkerDataReply(w, r, new_id) /\ UNCHANGED notClient
    \/ \E w \in DOMAIN cw : WorkerStreamError(w) /\ UNCHANGED notClient

SpecSaturated == SpecSaturatedInit /\ [][SpecSaturatedNext]_vars

\* one call of calculate_workers with any of the file sizes of the model
SpecWorkersInit ==
    /\ mode = "client"
    /\ PoolIdle
    /\ ServerInit
    /\ sToken = <<97>>
    /\ ClientInit
    /\ FirstAuxIdle
    /\ CkIdle
    /\ AwIdle
    /\ RdIdle
    /\ WrIdle
    /\ LkIdle
    /\ NwInit
    /\ SpIdle

\* what the call does not touch
notNw == <<poolVars, mode, serverVars, fsVars, sw, ghostVars, clientVars, firstAux, ckVars, awVars, rdVars, wrVars, lkVars, spVars>>

SpecWorkersNext ==
    \/ CallCalculateWorkers /\ UNCHANGED notNw

SpecWorkers == SpecWorkersInit /\ [][SpecWorkersNext]_vars

\* the client of one upload, of the empty file or of StreamFile, from the
\* arrival of the worker ACK on
SpecEmptyInit ==
    /\ mode = "client"
    /\ pool = {0}
    /\ poolLock = NoTask
    /\ tpc = [t \in Tasks |-> "idle"]
    /\ targ = [t \in Tasks |-> 0]
    /\ tret = [t \in Tasks |-> RetNothing]
    /\ live = [id \in U8 |-> 0]
    /\ ServerInit
    /\ sToken = <<97>>
    /\ cPc = "main"
    /\ cConn = 1
    /\ cAuth = "Authenticated"
    /\ cStop = FALSE
    /\ cFailed = FALSE
    /\ cTx = <<>>
    /\ cSent = {<<7, 0>>}
    /\ \E meta \in {EmptyFileMeta, MetaOf(StreamFile)} :
          ctx = [NoCtx EXCEPT !.some = TRUE, !.state = "WorkersOpening", !.message_id = 0,
                              !.meta = meta]
    /\ cw = [w \in Workers |-> OffWorker]
    /\ cCmds = 0
    /\ cStale = 0
    /\ AuxIdle

\* the steps of the worker task w
WorkerRuns(w) ==
    /\ w \in DOMAIN cw
    /\ \/ WorkerStart(w)
       \/ \E read_ok \in BOOLEAN : WorkerPick(w, read_ok)
       \/ \E r \in WorkerReplies, new_id \in FinalizeIds :
             Len(cTx) < MaxQueue /\ WorkerInquiryReply(w, r, new_id)
       \/ \E r \in WorkerReplies, new_id \in FinalizeIds :
             Len(cTx) < MaxQueue /\ WorkerDataReply(w, r, new_id)

\* the same under the scheduling of the runtime: every worker task and the
\* sender task run when they can, and a reply of the server is read
SpecEmptyFair ==
    /\ SpecEmptyInit
    /\ [][SpecStreamNext]_vars
    /\ \A w \in 1 .. StreamChunks : WF_vars(WorkerRuns(w) /\ UNCHANGED notClient)
    /\ WF_vars(ClientSenderTake /\ UNCHANGED notClient)
    /\ WF_vars(\E fr \in ServerFrames(cSent) :
                  /\ fr = WorkerAckFrame(0) => ctx.state = "WorkersOpening"
                  /\ ClientRecv(fr, NoId, FALSE)
                  /\ UNCHANGED notClient)

\* one upload of the server, by the paths it builds from the metadata
SpecServedPathsInit ==
    /\ mode = "server"
    /\ PoolIdle
    /\ ServerInit
    /\ sToken = <<97>>
    /\ ClientInit
    /\ FirstAuxIdle
    /\ CkIdle
    /\ AwIdle
    /\ RdIdle
    /\ WrIdle
    /\ LkIdle
    /\ NwIdle
    /\ SpInit

\* what the building of the paths does not touch
notSp == <<poolVars, mode, serverVars, fsVars, sw, ghostVars, clientVars, firstAux, ckVars, awVars, rdVars, wrVars, lkVars, nwVars>>

SpecServedPathsNext ==
    \/ PreparePaths /\ UNCHANGED notSp
    \/ ChunkPaths /\ UNCHANGED notSp
    \/ AssemblePaths /\ UNCHANGED notSp

SpecServedPaths == SpecServedPathsInit /\ [][SpecServedPathsNext]_vars

\* C1: under any interleaving of allocate and release calls, no id has two
\* allocations that were returned and not released since, and every such
\* allocation's id is in the pool (allocate returned it when it was absent
\* and inserted it).
C1_UniqueUnreleasedIds ==
    \A id \in U8 : live[id] <= 1 /\ (live[id] = 1 => id \in pool)

\* two tasks have just been handed two different ids, one of them an id that
\* was released before
C1_Witness ==
    \E t1, t2 \in Tasks :
        /\ tret[t1].kind = "some" /\ tret[t2].kind = "some"
        /\ tret[t1].val # tret[t2].val
        /\ tret[t1].val \in SmallIds
        /\ tpc[t1] = "idle" /\ tpc[t2] = "idle"

\* C2: with 256 ids in the pool allocate returns none and leaves the pool
\* unchanged; with fewer it goes on to the draw loop and, when it returns,
\* returns an id, never none.
C2_NoneExactlyAtSaturation ==
    [][\A t \in Tasks :
        /\ (tpc[t] = "create_check" /\ tpc'[t] # "create_check") =>
              IF Cardinality(pool) = 256
              THEN tpc'[t] = "idle" /\ tret'[t] = RetNone /\ pool' = pool
              ELSE tpc'[t] = "create_loop" /\ tret'[t] # RetNone
        /\ (tpc[t] = "create_loop" /\ tpc'[t] = "idle") =>
              /\ Cardinality(pool) < 256
              /\ tret'[t].kind = "some"
        /\ (tret'[t] = RetNone /\ tret[t] # RetNone) => Cardinality(pool) = 256
      ]_vars

\* an allocate has returned none on the saturated pool
C2_Witness ==
    \E t \in Tasks :
        tret[t] = RetNone /\ tpc[t] = "idle" /\ Cardinality(pool) = 256

\* C3: on the server, a frame that arrives while the connection is
\* Unauthenticated and whose opcode is neither 0x01 nor 0x03 reaches no
\* handler: the dispatch changes nothing but the outgoing queue, to which it
\* adds one final-flagged 0xFF frame with the payload "Unauthenticated", and
\* the loop is left; what follows the leaving is the close of the connection.
C3_GateDeniesUnauthenticated ==
    [][/\ \A fr \in AuthClientFrames :
            (mode = "server" /\ sAuth = "Unauthenticated" /\ fr.opcode \notin {1, 3}
             /\ ServerDispatch(fr))
            => /\ sTx' = Append(sTx, [opcode |-> 255, message_id |-> fr.message_id,
                                      reserved |-> 255,
                                      payload |-> TextPayload("Unauthenticated")])
               /\ sPc' = "break"
               /\ UNCHANGED <<sAuth, sessions, fin, fsVars, sw, ghostVars>>
       /\ (sPc = "break" /\ sPc' # "break")
            => sPc' = "done" /\ sClose'.closed /\ UNCHANGED <<sessions, fin, fsVars, sw, ghostVars>>
      ]_vars

C3_Witness ==
    /\ mode = "server"
    /\ sAuth = "Unauthenticated"
    /\ sPc = "done"
    /\ sClose.closed
    /\ sTx # <<>>
    /\ sTx[Len(sTx)].opcode = 255
    /\ sTx[Len(sTx)].payload.text = "Unauthenticated"

\* C4: on the server and on the client a connection starts Unauthenticated,
\* and a connection that is Authenticated stays Authenticated in every later
\* state of that connection, whatever it receives, a later AuthRequest with a
\* wrong token included.
C4_NoDowngrade ==
    /\ sAuth = "Unauthenticated"
    /\ cAuth = "Unauthenticated"
    /\ [][/\ sConn' # sConn => sAuth' = "Unauthenticated"
          /\ (sConn' = sConn /\ sAuth = "Authenticated") => sAuth' = "Authenticated"
          /\ cConn' # cConn => cAuth' = "Unauthenticated"
          /\ (cConn' = cConn /\ cAuth = "Authenticated") => cAuth' = "Authenticated"
         ]_vars

\* an authenticated connection has had an AuthRequest with a wrong token
C4_Witness ==
    /\ mode = "server"
    /\ sAuth = "Authenticated"
    /\ sPc = "break"
    /\ sTx # <<>>
    /\ sTx[Len(sTx)] = AuthFailureFrame(sTx[Len(sTx)].message_id)

\* C5: the server's AuthRequest handler sets the connection to Authenticated
\* and queues the empty success reply exactly when the bytes of the payload
\* equal the bytes of the configured token.
C5_AuthenticatesOnExactBytes ==
    [][\A fr \in AuthClientFrames :
          (mode = "server" /\ fr.opcode = 3 /\ ServerDispatch(fr))
          => ((/\ sAuth' = "Authenticated"
               /\ sTx' = Append(sTx, [opcode |-> 0, message_id |-> fr.message_id,
                                      reserved |-> 255, payload |-> NoPayload]))
              <=> TokenMatchesBytewise(fr.payload.bytes, sToken))
      ]_vars

\* C6: when the server closes the connection after a token mismatch or a
\* denied frame, the reply it queued has been written to the control stream:
\* no failure reply is left in the queue of a connection closed with code 2.
C6_ReplyWrittenBeforeClose ==
    (mode = "server" /\ sClose.closed /\ sClose.code = 2)
    => \A i \in 1 .. Len(sTx) :
          ~(IsFinal(sTx[i]) /\ (sTx[i].opcode = OPCODE_ERROR_FATAL
                                \/ (sTx[i].opcode = 0 /\ sTx[i].payload.len > 0)))

\* C7: when the client reads a 0xFF frame, or reads a final-flagged 0x00
\* reply with a payload while it is Unauthenticated, the stop-reconnecting
\* flag is set by the dispatch of that frame; a flag that is set stays set,
\* and no connection is attempted while it is set.
C7_AuthFailureStopsReconnecting ==
    [][/\ \A fr \in ServerFrames(cSent), drain \in BOOLEAN :
            \A new_id \in (IF NeedsId(fr) THEN AllocChoices(pool) ELSE {NoId}) :
               (/\ mode = "client"
                /\ \/ fr.opcode = 255
                   \/ cAuth = "Unauthenticated" /\ fr.opcode = 0 /\ fr.reserved = 255
                      /\ fr.payload.len > 0
                /\ ClientRecv(fr, new_id, drain))
               => cStop'
       /\ cStop => (cStop' /\ cConn' = cConn)
      ]_vars

\* C8: whenever the server answers a finalize request with payload 1, at
\* that moment the final file exists, the SHA-256 of its content is
\* metadata.file_hash, and F.lock, F.hash and F.tmp are gone.
C8_SuccessReplyMeansFileStored ==
    [][\A k \in FinTasks :
          (mode = "server" /\ fin[k].pc = "reply" /\ fin[k].success
           /\ TxOpen(fin[k].conn) /\ FinReply(k))
          => /\ fsFinal.exists
             /\ HexSha256(fsFinal.content) = fin[k].meta.file_hash
             /\ ~fsLock /\ ~fsHash.exists /\ ~fsTmp.exists
      ]_vars

\* C9: outside the assembly of a finalize task (between the creation of the
\* final file and the end of its verification), the file F exists only if a
\* finalization has succeeded; a finalize that has failed has left no F.
C9_FinalOnlyAfterSuccess ==
    (/\ mode = "server"
     /\ fsFinal.exists
     /\ \A k \in FinTasks : fin[k].pc \notin {"append", "verify", "cleanup"})
    => gSucceeded

C11_AtMostOneUploadContext ==
    [][/\ (ctx.some /\ CmdUploadCheck) => cCmds' = cCmds
       /\ \A new_id \in DrawIds \cup {NoId}, hash_ok \in BOOLEAN :
             (/\ mode = "client"
              /\ ctx.some
              /\ CmdUpload(MetaOf(UploadFile), new_id, hash_ok))
             => (ctx' = ctx /\ cTx' = cTx)
      ]_vars

\* C12: while the watcher runs no recorded PING is older than 600 ms, and the
\* watcher closes only at a scan that finds a PING older than 500 ms and at
\* most 600 ms old; that step closes with code 1 and "PONG timeout", empties
\* the in-flight map and ends the watcher.
C12_PongTimeoutWindow ==
    /\ watcherPc = "run" =>
          \A e \in in_flight_pings : now - e[2] <= TimeoutTicks + WatchTicks
    /\ [][(WatcherRound /\ \E e \in in_flight_pings : now - e[2] > TimeoutTicks)
          => /\ \A e \in in_flight_pings : now - e[2] <= TimeoutTicks + WatchTicks
             /\ kaClose' = Closed(1, "PONG timeout")
             /\ in_flight_pings' = {}
             /\ watcherPc' = "done"]_vars
        /\ [][kaClose' # kaClose
              => \E e \in in_flight_pings : now - e[2] > TimeoutTicks]_vars

C12_Witness ==
    /\ kaClose = Closed(1, "PONG timeout")
    /\ watcherPc = "done"
    /\ in_flight_pings = {}
    /\ now > PingTicks + TimeoutTicks

\* C13: the bytes of a header are its opcode, message id, payload type and
\* reserved byte followed by the length, low byte first, and decoding the
\* bytes gives the header back field by field.
C13_HeaderRoundTrip ==
    /\ Len(wire) = 8 =>
          /\ wire[1] = hdr.opcode
          /\ wire[2] = hdr.message_id
          /\ wire[3] = hdr.payload_type
          /\ wire[4] = hdr.reserved
          /\ \A k \in 0..3 : wire[5 + k] \in 0..255
          /\ hdr.payload_len = U32(wire[7] + 256 * wire[8], wire[5] + 256 * wire[6])
    /\ decoded # <<>> =>
          /\ decoded[1].opcode = hdr.opcode
          /\ decoded[1].message_id = hdr.message_id
          /\ decoded[1].payload_type = hdr.payload_type
          /\ decoded[1].reserved = hdr.reserved
          /\ decoded[1].payload_len = hdr.payload_len

C13_Witness ==
    /\ decoded # <<>>
    /\ hdr.payload_len = U32_MAX
    /\ hdr.reserved = 255
    /\ wire[5] = 255 /\ wire[8] = 255

C15_TerminatedExchangeFreesId ==
    cPc = "main" =>
        \A s \in cSent :
            (s[1] # 3 /\ s[2] \in pool) =>
                \A fr \in Answers(s[1], s[2]) :
                    \A new_id \in (IF NeedsId(fr) THEN AllocChoices(pool) ELSE {NoId}) :
                        fr.opcode \in {0, 2, 4}
                        => fr.message_id \notin ClientDispatch(fr, new_id).pool

\* C16: resolve_and_validate_path succeeds exactly on the paths that begin
\* with "/", name a configured volume in their first piece and have no ".."
\* piece behind it; the result is then the bind_path of the volume followed by
\* the later pieces other than "" and ".", none of which is "..".
C16_ResolvedUnderBindPath ==
    resolved # <<>> =>
        LET segs == Segments(target_dir)
            named == {i \in 1 .. Len(segs) : segs[i] \notin {<<>>, <<".">>}}
            first == CHOOSE i \in named : \A j \in named : i <= j
            later == {i \in named : i > first}
            good == /\ target_dir # <<>>
                    /\ target_dir[1] = "/"
                    /\ named # {}
                    /\ \E v \in Volumes : v.dev_name = segs[first]
                    /\ \A i \in later : segs[i] # <<".", ".">>
        IN  /\ resolved[1].ok <=> good
            /\ resolved[1].ok =>
                  \E v \in Volumes :
                     /\ v.dev_name = segs[first]
                     /\ Len(resolved[1].path) = Len(v.bind_path) + Cardinality(later)
                     /\ SubSeq(resolved[1].path, 1, Len(v.bind_path)) = v.bind_path
                     /\ \A k \in 1 .. Len(resolved[1].path) :
                           resolved[1].path[k] \notin {<<>>, <<".">>, <<".", ".">>}
                     /\ \A i \in later :
                           resolved[1].path[Len(v.bind_path) + Cardinality({j \in later : j <= i})]
                              = segs[i]
            /\ ~resolved[1].ok => resolved[1].path = <<>>

C16_Witness ==
    /\ resolved # <<>>
    /\ resolved[1].ok
    /\ target_dir = <<"/", "a", "/", ".", "/", "b">>
    /\ resolved[1].path = <<<<"s">>, <<"v">>, <<"b">>>>

\* C17: once the client has been silent on the control stream for more than
\* 15 s, the server has closed the connection with code 0 and the reason
\* "keep-alive timeout", whichever read it was waiting in.
C17_SilentClientDisconnected ==
    silentFor > READ_TIMEOUT => wdClose = Closed(0, "keep-alive timeout")

\* C18: while a connection waits for the reply to its authentication
\* request and that request is the one frame of the queue, the sender step
\* that takes it writes it to the control stream of that connection.
C18_AuthRequestReachesNewConnection ==
    [][(/\ cPc = "auth_wait"
        /\ Len(cTx) = 1
        /\ Head(cTx).opcode = 3
        /\ ClientSenderTake)
       => <<3, Head(cTx).message_id>> \in cSent']_vars

\* C19: when a worker reads a reply to its 0x09 frame that is not
\* final-flagged, the chunk id is back in the queue or still in the hands of
\* the worker.
C19_ReloadKeepsChunk ==
    [][\A w \in Workers, r \in WorkerReplies, new_id \in FinalizeIds :
          (~IsFinal(r) /\ WorkerDataReply(w, r, new_id))
          => \/ \E i \in 1 .. Len(ctx'.chunk_queue) : ctx'.chunk_queue[i] = cw[w].chunk
             \/ /\ cw'[w].pc \in {"wait_inquiry", "wait_data"}
                /\ cw'[w].chunk = cw[w].chunk
      ]_vars

\* C20: whenever the authenticated server is about to read a frame and the
\* queue has room, handling an upload initiation that it rejects (metadata
\* that does not parse, or a target whose preparation fails) queues a frame
\* for the client.
C20_RejectedInitiationIsAnswered ==
    (mode = "server" /\ sPc = "read" /\ sAuth = "Authenticated" /\ Len(sTx) < CHANNEL_CAPACITY)
    => \A id \in MsgIds, pl \in MetaPayloads(UploadMetas) :
          (pl.kind # "json" \/ PrepareResult(pl.meta) = "Err")
          => ENABLED (ServerDispatch(NewFrame(6, id, pl)) /\ sTx' # sTx)

\* C21: the state of the upload context changes only one step forward along
\* Initiated, WorkersOpening, Streaming, Finishing, cleared, or to cleared,
\* and a context is begun only where none is; it never moves backwards and
\* never skips a state.
C21_UploadStateOrder ==
    [][\/ ctx'.state = ctx.state
       \/ ctx'.state = "None"
       \/ <<ctx.state, ctx'.state>> \in {<<"None", "Initiated">>,
                                         <<"Initiated", "WorkersOpening">>,
                                         <<"WorkersOpening", "Streaming">>,
                                         <<"Streaming", "Finishing">>}
      ]_vars

\* C22: among the workers of one upload no two hold the same chunk id, the
\* ids wait in the queue in ascending order behind every id a worker holds,
\* and the queue changes only by losing its front; it is filled once, by
\* the worker ACK.
C22_ChunkPoppedOnceInOrder ==
    /\ [](ctx.some =>
            /\ \A i \in 1 .. Len(ctx.chunk_queue) - 1 :
                  ctx.chunk_queue[i] < ctx.chunk_queue[i + 1]
            /\ \A i \in 1 .. Len(ctx.chunk_queue) : ctx.chunk_queue[i] < ctx.total_chunks
            /\ \A w \in DOMAIN cw :
                  cw[w].pc \in {"wait_inquiry", "wait_data"}
                  => /\ \A i \in 1 .. Len(ctx.chunk_queue) : cw[w].chunk < ctx.chunk_queue[i]
                     /\ \A v \in DOMAIN cw \ {w} :
                           cw[v].pc \in {"wait_inquiry", "wait_data"}
                           => cw[v].chunk # cw[w].chunk)
    /\ [][\/ ctx'.chunk_queue = ctx.chunk_queue
          \/ ctx.chunk_queue # <<>> /\ ctx'.chunk_queue = Tail(ctx.chunk_queue)
          \/ /\ ctx.state = "WorkersOpening"
             /\ ctx'.state = "Streaming"
             /\ ctx.chunk_queue = <<>>
             /\ ctx'.chunk_queue = [i \in 1 .. ctx'.total_chunks |-> i - 1]
          \/ ~ctx'.some
         ]_vars

\* two workers hold a chunk each at the same time and the queue is empty
C22_Witness ==
    /\ ctx.state = "Streaming"
    /\ ctx.chunk_queue = <<>>
    /\ \E w, v \in DOMAIN cw :
          /\ cw[w].pc = "wait_data"
          /\ cw[v].pc = "wait_inquiry"
          /\ cw[w].chunk = 1
          /\ cw[v].chunk = 0

\* the 0x10 frames among these frames
FinalizeFrames(frames) == {i \in 1 .. Len(frames) : frames[i].opcode = 16}

\* C23: completed_chunks of an upload only grows and stays at or below
\* total_chunks; a 0x10 request is queued only by the step that completes the
\* last chunk, which takes the context from Streaming to Finishing, and so
\* at most once; and the step that completes the last chunk of a Streaming
\* context, an id being free, queues exactly one 0x10 request with the
\* metadata of the upload and leaves the context Finishing.
C23_FinalizeOnceWhenComplete ==
    /\ [](/\ ctx.completed_chunks <= ctx.total_chunks
          /\ Cardinality(FinalizeFrames(cTx)) + Cardinality({s \in cSent : s[1] = 16}) <= 1)
    /\ [][/\ (ctx.some /\ ctx'.some) => ctx'.completed_chunks >= ctx.completed_chunks
          /\ FinalizeFrames(cTx') \ FinalizeFrames(cTx) # {}
             => /\ ctx.state = "Streaming"
                /\ ctx'.state = "Finishing"
                /\ ctx'.completed_chunks = ctx'.total_chunks
                /\ FinalizeFrames(cTx) = {}
                /\ ~\E s \in cSent : s[1] = 16
          /\ (/\ ctx.state = "Streaming"
              /\ ctx.completed_chunks < ctx.total_chunks
              /\ ctx'.completed_chunks = ctx.total_chunks
              /\ ~PoolFull(pool))
             => /\ ctx'.state = "Finishing"
                /\ cTx' = Append(cTx, NewFrame(16, ctx'.message_id, JsonPayload(ctx.meta)))
                /\ ctx'.message_id \in pool'
         ]_vars

\* both chunks are completed, the context is Finishing and the 0x10 request
\* waits in the queue
C23_Witness ==
    /\ ctx.state = "Finishing"
    /\ ctx.total_chunks = StreamChunks
    /\ ctx.completed_chunks = StreamChunks
    /\ FinalizeFrames(cTx) # {}

C25_InquirySkipsOnlyStoredChunk ==
    [][\A wf \in WorkerFrames :
          (wf.opcode = 8 /\ HandleWorkerStream(wf))
          => LET c == wf.chunk_id
                 stored == fsTmp.exists /\ fsTmp.chunks[c] # <<>>
                           /\ Sha256(fsTmp.chunks[c]) = wf.hash
             IN  /\ fsTmp' = fsTmp
                 /\ sw'.pc = "run"
                 /\ stored => /\ sw'.out = FrameWithReserved(0, 0, BytesPayload(<<2>>),
                                                             RESERVED_FINAL_FLAG)
                              /\ sw'.pending = sw.pending
                 /\ ~stored => /\ sw'.out = NewFrame(0, 0, BytesPayload(<<1>>))
                               /\ ~IsFinal(sw'.out)
                               /\ sw'.pending = [sw.pending EXCEPT ![c] = wf.hash]
      ]_vars

\* the stream has answered load to an inquiry for a chunk that is stored
\* with another content
C25_Witness ==
    /\ sw.pc = "run"
    /\ \E c \in ChunkIds :
          /\ fsTmp.exists
          /\ fsTmp.chunks[c] # <<>>
          /\ sw.pending[c] # <<>>
          /\ sw.pending[c] # Sha256(fsTmp.chunks[c])
          /\ sw.out = InquiryReply(1)

C27_FinalizeAlwaysAnswered ==
    (mode = "server" /\ sPc = "read" /\ sAuth = "Authenticated" /\ Len(sTx) < CHANNEL_CAPACITY)
    => \A id \in MsgIds, pl \in {NoPayload, BadJsonPayload} :
          ENABLED (/\ ServerDispatch(NewFrame(16, id, pl))
                   /\ sTx' = Append(sTx, FinalizeAckFrame(id, FALSE)))

C29_WorkerStreamNeedsHello ==
    /\ [](awPc = "run" =>
            /\ awMeta.some
            /\ awPayload = Utf8Encode(awMeta.file_hash))
    /\ [][/\ (awPc # "run" /\ awPc' = "run")
             => awMeta'.some /\ awMeta'.file_hash \in awUploads
          /\ (awPc = "run" /\ awPc' = "run") => awMeta' = awMeta
          /\ awPc' = "dropped" => awMeta' = awMeta
         ]_vars

\* C30: on the control stream of the client, the control stream of the server
\* and a worker stream of the server, whenever the loop is about to read the
\* next 8-byte header, every payload byte of the frame it has just handled
\* has been consumed, whatever the opcode and the payload length were.
C30_PayloadConsumedBeforeNextHeader == rdPc = "header" => rdOwed = 0

\* C31: whatever tasks send messages into the channel of a control stream
\* and however write_all cuts its writes, the bytes written to the stream,
\* followed by the bytes of the message the sender task still has to write,
\* are whole frames of the sending side, one after the other: each an 8-byte
\* header and exactly payload_len payload bytes, none inside another.
C31_StreamIsWholeFrames ==
    LET s == SplitFrames(wrStream \o wrCur)
    IN  /\ s.ok
        /\ \A i \in 1 .. Len(s.frames) : s.frames[i] \in Messages(wrSide)

C31_Witness ==
    /\ wrPc = "write"
    /\ wrCur # <<>>
    /\ Len(wrStream) > 10
    /\ ~SplitFrames(wrStream).ok
    /\ wrQueue # <<>>

\* C32: every message that leaves the outgoing queue of the client is taken
\* by the sender task of the connection that is open at that moment: when a
\* message is taken, no sender task of an ended connection is left to take it.
C32_EndedConnectionTakesNothing == [][ClientSenderTake => cStale = 0]_vars

\* C33: a task that is suspended on the network, on the disk, on a send into
\* the full outgoing queue or on a receive from the empty one holds none of
\* the locks (upload context, chunk queue, id pool, in-flight map).
C33_NoLockAcrossSuspension ==
    \A t \in LockTasks : Suspended(t) => Holds(t) = {}

\* C40: no task of the client waits for ever for the lock of the upload
\* context, of the chunk queue, of the id pool or of the in-flight map,
\* whatever the other tasks do and however full the outgoing queue is, as
\* long as the sender task goes on draining the queue: a task either goes
\* on from await to await without end, or it comes to rest at an await that
\* is not the wait for a lock.
C40_LockWaitersAreServed ==
    \A t \in LockTasks \ {"writer"} :
        \/ []<><<lkPc'[t] # lkPc[t]>>_lkVars
        \/ <>[](\A l \in Locks : ~WaitsFor(t, l))

C40_Witness ==
    /\ WaitsFor("command", "ctx")
    /\ lkHeld["ctx"] = "dispatcher"
    /\ At("dispatcher").op = "send"
    /\ lkChan = QueueSlots
    /\ WaitsFor("worker", "ctx")

\* C34: while the message id pool is saturated no step queues a frame or adds
\* an id, a command leaves the upload context as it is, and no step of an
\* upload leaves the context in WorkersOpening or Finishing that was not
\* there before: the step that needs the new id clears the context
C34_SaturatedPoolFailsAtOnce ==
    [][PoolFull(pool) =>
          /\ Len(cTx') <= Len(cTx)
          /\ pool' \subseteq pool
          /\ ~ctx.some => ~ctx'.some
          /\ ctx'.some /\ ctx'.state \in {"WorkersOpening", "Finishing"}
                => ctx.some /\ ctx.state = ctx'.state]_vars

\* the chunks of a file of this size, ceil(file_size / CHUNK_SIZE), held as
\* the size itself is
CeilChunks(size) == CeilOfQuotient(size)

C36_EmptyUploadCompletes ==
    (ctx.some /\ ctx.meta.file_size = 0 /\ ctx.state = "Streaming") ~> ~ctx.some

\* C37: while the upload context waits for the reply to its message id, no
\* step allocates that id: it is not among the ids a step adds to the pool
C37_PendingIdNotReallocated ==
    [][(ctx.some /\ ctx.state \in {"Initiated", "WorkersOpening", "Finishing"})
          => ctx.message_id \notin (pool' \ pool)]_vars

\* C38: the files of the server change only in a step of the control loop
\* of an Authenticated connection, of a worker stream that is bound to a
\* session, or of a finalize task; a session exists, a worker stream is
\* bound and a finalize task is started only while the connection is
\* Authenticated, and a connection that is Authenticated stays so
C38_NoWriteForUnauthenticated ==
    [][/\ (sConn' = sConn /\ sAuth = "Authenticated") => sAuth' = "Authenticated"
       /\ sessions' # {} => sAuth' = "Authenticated"
       /\ (sw.pc # "run" /\ sw'.pc = "run") => sAuth = "Authenticated"
       /\ \A k \in FinTasks :
             (fin[k].pc = "idle" /\ fin'[k].pc # "idle") => sAuth = "Authenticated"
       /\ fsVars' # fsVars =>
             \/ fin' # fin
             \/ sw.pc = "run" /\ sw' # sw
             \/ sAuth = "Authenticated" /\ sw' = sw]_vars

\* the second connection is Unauthenticated, its client has sent an
\* initiation that was refused, and the chunk a worker stream of the first
\* connection stored is all there is
C38_Witness ==
    /\ mode = "server"
    /\ sConn = 2
    /\ sAuth = "Unauthenticated"
    /\ sPc = "break"
    /\ sessions = {}
    /\ fsTmp.exists
    /\ \E c \in ChunkIds : fsTmp.chunks[c] # <<>>
    /\ ~fsFinal.exists

\* C39: every path the server has created, written or removed for an upload
\* lies under the bind_path of a configured volume, whatever the target_dir
\* and the file_name of the metadata are
C39_PathsUnderBindPath == \A p \in touched : UnderVolume(p)

====
